---- MODULE Spec2Model ----
(***************************************************************************)
(* Replibyte (MarkMagnus fork): the capture-and-transform pipeline of a    *)
(* Postgres dump.  The module models                                       *)
(*   - SourceOptions::new and its only_tables/skip validation              *)
(*     (source/source_options.rs),                                         *)
(*   - the data-phase planner database_tables_subset_config                *)
(*     (source/postgres.rs),                                               *)
(*   - the dump driver Source::read with its schema and data phases        *)
(*     (source/postgres.rs),                                               *)
(*   - the column codec CsvSubSource (source/csv_sub_source.rs),           *)
(*   - MobileNumberTransformer::transform (transformer/mobile_number.rs), *)
(*   - the hstore and json codecs and the compound transformers           *)
(*     (source/hstore.rs, source/json.rs, transformer/*_attr*.rs),        *)
(*   - parse_connection_uri and the connector (config.rs),                *)
(*   - the messages of the dump command and the teardown of               *)
(*     restore_local (commands/dump.rs),                                  *)
(*   - the child processes of the driver and their pipes                  *)
(*     (source/postgres.rs).                                              *)
(* Each part has its own specification over the shared variables; the      *)
(* variables a specification does not use stay at their idle value.        *)
(***************************************************************************)
EXTENDS Integers, Sequences, FiniteSets, TLC

VARIABLES
    pc,            \* where the modelled call stands
    config,        \* SourceOptions::new: the SourceConfig handed in
    new_result,    \* SourceOptions::new: "Pending", or how the call ended
    options,       \* the SourceOptions bundle the planner and the driver read
    discovered,    \* QueryStruct::database_tables(): the introspected tables
    plan,          \* database_tables_subset_config: the data-phase plan
    dump_args,     \* get_dump_args: the arguments pg_dump is started with
    sub_source,    \* CsvSubSource: csv, columns, transformers
    processed,     \* CsvSubSource::process: how it ended and what it returned
    mobile,        \* MobileNumberTransformer: options, build profile, input
    mobile_out,    \* MobileNumberTransformer::transform: the column returned
    table_idx,     \* dump_database_data: position of the loop in the plan
    table_columns, \* dump_table_data: database_columns of the current table
    csv_rows,      \* read_table_data: the batch the closure is working on
    log,           \* the calls of query_callback so far: phase and plan entry
    last,          \* the payloads of the latest call of query_callback
    child,         \* the child process spawned or waited for last
    cell,          \* compound transformer: codec, options, input column
    cell_out,      \* compound transformer: how transform ended, its column
    codec_in,      \* KV codec: the map handed to the serializer
    codec_out,     \* KV codec: how parsing the serialized map ended, the map
    bind,          \* transformers, table, columns and rows of one batch
    bind_out,      \* the rows as they leave the batch
    environ,       \* the environment variables of the process
    conf,          \* config.rs: the string or connection uri handed in
    conf_out,      \* config.rs: the Result returned
    path,          \* the binaries found on PATH
    init_out,      \* Connector::init: the Result returned
    uris,          \* two runs of dump: their connection uris
    messages,      \* two runs of dump: the messages each has shown
    restore_args,  \* restore_local: the RestoreLocalArgs
    restore,       \* restore_local: task, signal, container, docker calls
    proc,          \* the child process of a stage and its two pipes
    stage          \* Source::read: entry of the plan, children not waited for

optionVars == <<config, new_result, options>>
planVars == <<discovered, plan, dump_args>>
csvVars == <<sub_source, processed>>
mobileVars == <<mobile, mobile_out>>
dumpVars == <<table_idx, table_columns, csv_rows, log, last, child>>
kvVars == <<cell, cell_out, codec_in, codec_out>>
confVars == <<environ, conf, conf_out>>
initVars == <<path, init_out>>
bindVars == <<bind, bind_out>>
msgVars == <<uris, messages>>
restoreVars == <<restore_args, restore>>
pipeVars == <<proc, stage>>
lateVars == <<msgVars, restoreVars, pipeVars>>
restVars == <<kvVars, confVars, initVars, bindVars, lateVars>>

vars == <<pc, config, new_result, options, discovered, plan, dump_args,
          sub_source,
          processed, mobile, mobile_out, table_idx, table_columns, csv_rows,
          log, last, child, cell, cell_out, codec_in, codec_out, environ, conf,
          conf_out, path, init_out, bind, bind_out,
          uris, messages, restore_args, restore, proc, stage>>

----------------------------------------------------------------------------
(* Generic helpers *)

\* All sequences over S of length 0..n.
SeqsUpTo(S, n) == UNION {[1..k -> S] : k \in 0..n}

\* Vec::contains
Contains(s, x) == \E i \in 1..Len(s) : s[i] = x

\* Option<T>: None, Some(v).  The payload of None is never read.
None == [some |-> FALSE, val |-> <<>>]
Some(v) == [some |-> TRUE, val |-> v]

----------------------------------------------------------------------------
(* Configuration types (config.rs) *)

\* DbTableConfig / OnlyTablesConfig: (database, table); equality compares both.
DbTableConfig(d, t) == [database |-> d, table |-> t]

\* DbTableConfig::only_config: the same pair as an OnlyTablesConfig.
only_config(table) == [database |-> table.database, table |-> table.table]

\* DatabaseSubsetConfig::new: the default descriptor of a table, strategy None.
DatabaseSubsetConfigNew(d, t) == [database |-> d, table |-> t, strategy |-> "None"]

\* DatabaseSubsetConfig::table_config
table_config(subset_config) ==
    DbTableConfig(subset_config.database, subset_config.table)

\* The tables of the model: two in schema public, and one of another schema
\* that shares a table name with a public one.
TableIds ==
    { DbTableConfig("public", "orders"),
      DbTableConfig("public", "customers"),
      DbTableConfig("archive", "orders") }

\* DatabaseSubsetConfigStrategy: Random | ForeignKey | None
SubsetStrategies == {"None", "ForeignKey", "Random"}

\* The strategies the descriptors of the model are drawn from.
DescriptorStrategies == {"None", "ForeignKey"}

\* TransformerTypeConfig variants used in the model.
TransformerKinds == {"blank", "random-date"}

MaxOnly == 2
MaxSkip == 2
MaxSubset == 2
MaxColumns == 2

Descriptors ==
    { [database |-> t.database, table |-> t.table, strategy |-> s] :
        t \in TableIds, s \in DescriptorStrategies }

ColumnConfigs == { [name |-> "email", transformer |-> k] : k \in TransformerKinds }

TransformerConfigs ==
    { [database |-> "public", table |-> "orders", columns |-> cs] :
        cs \in SeqsUpTo(ColumnConfigs, MaxColumns) }

OptionOf(S) == {None} \cup {Some(v) : v \in S}

----------------------------------------------------------------------------
(* SourceOptions::new (source/source_options.rs) *)

\* The value a transformer is known by: its identity and the column it is
\* bound to (Transformer::id, database_name, table_name, column_name).
Transformer(kind, d, t, c) ==
    [id |-> kind, database_name |-> d, table_name |-> t, column_name |-> c]

\* TransformerTypeConfig::transformer returns a boxed transformer for every
\* variant but RandomDate, whose arm is todo!(): the call aborts.
transformer_aborts(kind) == kind = "random-date"

RECURSIVE FlatMapColumns(_)
FlatMapColumns(tcs) ==
    IF tcs = <<>> THEN <<>>
    ELSE LET tc == Head(tcs)
         IN [j \in 1..Len(tc.columns) |->
                Transformer(tc.columns[j].transformer, tc.database, tc.table,
                            tc.columns[j].name)]
            \o FlatMapColumns(Tail(tcs))

\* SourceOptions::new_transformers: one transformer per (table, column) entry,
\* in configuration order.
new_transformers(cfg) ==
    IF cfg.transformers.some THEN FlatMapColumns(cfg.transformers.val) ELSE <<>>

\* Whether building the transformers hits the todo!() arm.
new_transformers_aborts(cfg) ==
    \E i \in 1..Len(new_transformers(cfg)) :
        transformer_aborts(new_transformers(cfg)[i].id)

\* SourceOptions::new_skip_config
new_skip_config(cfg, default) ==
    IF cfg.skip.some THEN cfg.skip.val ELSE default

\* SourceOptions::new_only_tables_config
new_only_tables_config(cfg, empty_config) ==
    IF cfg.only_tables.some THEN cfg.only_tables.val ELSE empty_config

NoTable == DbTableConfig("", "")

\* The comparison of check_tables_config's inner loop.
same_table(only_table, skip) ==
    only_table.database = skip.database /\ only_table.table = skip.table

\* SourceOptions::check_tables_config: the first (only_table, skip) pair, in
\* loop order, that names the same table is the error; Ok otherwise.
check_tables_config(skip_config, only_tables_config) ==
    LET conflicts ==
            { p \in (1..Len(only_tables_config)) \X (1..Len(skip_config)) :
                same_table(only_tables_config[p[1]], skip_config[p[2]]) }
    IN  IF conflicts = {}
        THEN [ok |-> TRUE, table |-> NoTable]
        ELSE LET first == CHOOSE p \in conflicts :
                            \A q \in conflicts :
                                \/ p[1] < q[1]
                                \/ (p[1] = q[1] /\ p[2] <= q[2])
             IN [ok |-> FALSE, table |-> only_tables_config[first[1]]]

NoOptions ==
    [transformers |-> <<>>, skip_config |-> <<>>,
     database_subset |-> None, only_tables |-> <<>>]

\* The bundle SourceOptions::new builds on the Ok arm.  The caller's
\* accumulator starts empty (commands/dump.rs), so it ends as the new list.
Bundle(cfg) ==
    [transformers |-> new_transformers(cfg),
     skip_config |-> new_skip_config(cfg, <<>>),
     database_subset |-> cfg.database_subset,
     only_tables |-> new_only_tables_config(cfg, <<>>)]

Pending == [kind |-> "Pending", table |-> NoTable]

\* The result of SourceOptions::new(config, [], [], []).
SourceOptionsNewResult(cfg) ==
    IF new_transformers_aborts(cfg)
    THEN [kind |-> "Abort", table |-> NoTable]
    ELSE LET chk == check_tables_config(new_skip_config(cfg, <<>>),
                                        new_only_tables_config(cfg, <<>>))
         IN IF chk.ok THEN [kind |-> "Ok", table |-> NoTable]
            ELSE [kind |-> "Err", table |-> chk.table]

SourceConfigs ==
    [transformers : OptionOf(SeqsUpTo(TransformerConfigs, 1)),
     skip : OptionOf(SeqsUpTo(TableIds, MaxSkip)),
     database_subset : {None},
     only_tables : OptionOf(SeqsUpTo(TableIds, MaxOnly))]

NoConfig ==
    [transformers |-> None, skip |-> None,
     database_subset |-> None, only_tables |-> None]

\* The idle values of the variables of each part.
OptionsIdle == config = NoConfig /\ new_result = Pending /\ options = NoOptions

PlanIdle == discovered = <<>> /\ plan = <<>> /\ dump_args = <<>>

NoSubSource == [csv |-> <<>>, columns |-> <<>>, transformers |-> <<>>]
NotProcessed == [ok |-> TRUE, csv |-> <<>>]
CsvIdle == sub_source = NoSubSource /\ processed = NotProcessed

NoMobile ==
    [country_code |-> 0, length |-> 0, build |-> "release", seed |-> 0,
     column_tag |-> "None"]
NoMobileOut == [ok |-> TRUE, tag |-> "None", text |-> <<>>]
MobileIdle == mobile = NoMobile /\ mobile_out = NoMobileOut

NoCell ==
    [codec |-> "hstore", options |-> <<>>, seed |-> 0, tag |-> "None",
     value |-> <<>>]
NoCellOut == [ok |-> TRUE, tag |-> "None", value |-> <<>>]
NoMap == [codec |-> "hstore", order |-> <<>>, kv |-> <<>>]
NoMapOut == [ok |-> TRUE, kv |-> <<>>]
KvIdle ==
    /\ cell = NoCell
    /\ cell_out = NoCellOut
    /\ codec_in = NoMap
    /\ codec_out = NoMapOut

NoConf == [kind |-> "none", text |-> <<>>, environ_before |-> <<>>]
NoResult ==
    [ok |-> TRUE, kind |-> "none", text |-> <<>>, host |-> <<>>, port |-> 0,
     username |-> <<>>, password |-> <<>>, database |-> <<>>]
ConfIdle == environ = <<>> /\ conf = NoConf /\ conf_out = NoResult
NotCalled == [ok |-> TRUE, kind |-> "none"]
InitIdle == path = {} /\ init_out = NotCalled
NoBatch ==
    [transformers |-> <<>>, table |-> [database |-> "", table |-> ""],
     columns |-> <<>>, csv |-> <<>>]
BindIdle == bind = NoBatch /\ bind_out = NotProcessed

NoRuns == [a |-> <<>>, b |-> <<>>]
MsgIdle == uris = NoRuns /\ messages = NoRuns
NoArgs ==
    [value |-> "", output |-> FALSE, image |-> None, remove |-> FALSE]
NoRestore ==
    [task |-> "pending", interrupted |-> FALSE, container |-> FALSE,
     calls |-> <<>>]
RestoreIdle == restore_args = NoArgs /\ restore = NoRestore
NoProc ==
    [command |-> "none", state |-> "none", todo |-> <<>>, stdout |-> 0,
     stderr |-> 0, reader |-> FALSE, success |-> TRUE]
NoStage ==
    [entry |-> 0, entries |-> 0, unwaited |-> 0, read_failed |-> FALSE,
     bound |-> FALSE]
PipeIdle == proc = NoProc /\ stage = NoStage
LateIdle == MsgIdle /\ RestoreIdle /\ PipeIdle

NoChild == [process |-> "none", entry |-> 0, failed |-> FALSE]
NoCallback == [phase |-> "none", original |-> <<>>, transformed |-> <<>>]
DumpIdle ==
    /\ table_idx = 0
    /\ table_columns = <<>>
    /\ csv_rows = <<>>
    /\ log = <<>>
    /\ last = NoCallback
    /\ child = NoChild
    /\ LateIdle
    /\ KvIdle
    /\ ConfIdle
    /\ InitIdle
    /\ BindIdle

InitOptions ==
    /\ pc = "new"
    /\ config \in SourceConfigs
    /\ new_result = Pending
    /\ options = NoOptions
    /\ PlanIdle
    /\ CsvIdle
    /\ MobileIdle
    /\ DumpIdle

\* SourceOptions::new
SourceOptionsNew ==
    /\ pc = "new"
    /\ new_result' = SourceOptionsNewResult(config)
    /\ options' = IF new_result'.kind = "Ok" THEN Bundle(config) ELSE options
    /\ pc' = "returned"
    /\ UNCHANGED <<config, planVars, csvVars, mobileVars, dumpVars, restVars>>

NextOptions == SourceOptionsNew

SpecOptions == InitOptions /\ [][NextOptions]_vars

\* Some (database, table) pair occurs in both only_tables and skip.
HasConflict(cfg) ==
    /\ cfg.only_tables.some
    /\ cfg.skip.some
    /\ \E i \in 1..Len(cfg.only_tables.val), j \in 1..Len(cfg.skip.val) :
           cfg.only_tables.val[i] = cfg.skip.val[j]

\* C1: SourceOptions::new returns an error for every configuration in which
\* some (database, table) pair occurs in both only_tables and skip, whatever
\* else the configuration contains, and returns a bundle only when no such
\* pair exists.
C1_PlannerRejection ==
    pc = "returned" =>
        /\ HasConflict(config) => new_result.kind = "Err"
        /\ new_result.kind = "Ok" => ~HasConflict(config)

\* C1, the part the code keeps: a call that returns at all returns the error
\* exactly when a shared pair exists, and the error names the first such
\* only_tables entry.
C1_RejectionWhenReturning ==
    (pc = "returned" /\ new_result.kind # "Abort") =>
        /\ HasConflict(config) <=> new_result.kind = "Err"
        /\ ~HasConflict(config) <=> new_result.kind = "Ok"
        /\ new_result.kind = "Err" =>
               /\ Contains(config.only_tables.val, new_result.table)
               /\ Contains(config.skip.val, new_result.table)

\* C1: a configuration with a shared pair whose transformer list reaches the
\* todo!() arm: the call ends without returning the error.
C1_AbortWithConflict ==
    pc = "returned" /\ HasConflict(config) /\ new_result.kind = "Abort"

\* C30: for every transformer_name the configuration schema accepts,
\* TransformerTypeConfig::transformer returns a transformer, so that
\* SourceOptions::new ends only with a bundle or with the error of the
\* only_tables/skip conflict and never aborts.
C30_NewEndsWithBundleOrConflict ==
    pc = "returned" =>
        /\ new_result.kind \in {"Ok", "Err"}
        /\ \A i \in 1..Len(new_transformers(config)) :
               ~transformer_aborts(new_transformers(config)[i].id)

\* C30: a configuration without a conflict whose second column has the
\* transformer random-date: SourceOptions::new aborts and builds no bundle.
C30_AbortWithoutConflict ==
    /\ pc = "returned"
    /\ ~HasConflict(config)
    /\ config.transformers.some
    /\ Len(new_transformers(config)) = 2
    /\ new_transformers(config)[1].id = "blank"
    /\ new_transformers(config)[2].id = "random-date"
    /\ new_result.kind = "Abort"
    /\ options = NoOptions

----------------------------------------------------------------------------
(* The data-phase planner (source/postgres.rs) *)

\* subset_tables: the tables named by the database_subset descriptors.
subset_tables(opts) ==
    IF opts.database_subset.some
    THEN [i \in 1..Len(opts.database_subset.val) |->
            DbTableConfig(opts.database_subset.val[i].database,
                          opts.database_subset.val[i].table)]
    ELSE <<>>

\* default_entry without the subset_tables test: a discovered table that has
\* a descriptor gets a default entry as well.
default_entry_ignoring_subset(opts, table) ==
    IF Len(opts.only_tables) > 1
    THEN Contains(opts.only_tables, only_config(table))
    ELSE ~Contains(opts.skip_config, table)

\* The test of the loop body of database_tables_subset_config: whether a
\* discovered table gets a default (strategy None) entry.
default_entry(opts, table) ==
    LET limit_table_config == Len(opts.only_tables) > 1
    IN IF limit_table_config
       THEN /\ ~Contains(subset_tables(opts), table)
            /\ Contains(opts.only_tables, only_config(table))
       ELSE /\ ~Contains(subset_tables(opts), table)
            /\ ~Contains(opts.skip_config, table)

\* database_tables_subset_config: the default entries of the discovered
\* tables, in discovery order, then every descriptor of database_subset.
database_tables_subset_config(opts, tables) ==
    LET keep(table) == default_entry(opts, table)
        kept == SelectSeq(tables, keep)
        table_subset_config ==
            [i \in 1..Len(kept) |->
                DatabaseSubsetConfigNew(kept[i].database, kept[i].table)]
    IN IF opts.database_subset.some
       THEN table_subset_config \o opts.database_subset.val
       ELSE table_subset_config

\* QueryStruct::database_tables: the base tables of schema public, each once,
\* in the order the query returns them; empty when the connection fails.
PublicTables == {t \in TableIds : t.database = "public"}

DiscoveredLists ==
    { s \in SeqsUpTo(PublicTables, Cardinality(PublicTables)) :
        \A i, j \in 1..Len(s) : i # j => s[i] # s[j] }

\* The configurations the planner is reached with: SourceOptions::new
\* returned their bundle.
PlanConfigs ==
    { cfg \in [transformers : {None},
               skip : {Some(v) : v \in SeqsUpTo(TableIds, MaxSkip)},
               database_subset : OptionOf(SeqsUpTo(Descriptors, MaxSubset)),
               only_tables : {Some(v) : v \in SeqsUpTo(TableIds, MaxOnly)}] :
        SourceOptionsNewResult(cfg).kind = "Ok" }

\* The connection uri of the Postgres source (the one of the tests of
\* source/postgres.rs), as tokens.
ConnectionUri ==
    <<"postgres", "://", "root", ":", "password", "@", "localhost", ":",
      "5432", "/", "root">>

\* The argument --table=database.table that get_dump_args makes of an
\* only_tables entry.
TableArg(cfg) == <<"--table=", cfg.database, ".", cfg.table>>

\* get_dump_args: the fixed arguments of pg_dump and one --table flag for
\* every only_tables entry, in order.
get_dump_args(opts, connection_uri) ==
    <<<<"--no-owner">>, <<"-d">>, connection_uri, <<"--schema-only">>>>
    \o [i \in 1..Len(opts.only_tables) |-> TableArg(opts.only_tables[i])]

InitPlan ==
    /\ pc = "get_dump_args"
    /\ config \in PlanConfigs
    /\ new_result = SourceOptionsNewResult(config)
    /\ options = Bundle(config)
    /\ discovered \in DiscoveredLists
    /\ plan = <<>>
    /\ dump_args = <<>>
    /\ CsvIdle
    /\ MobileIdle
    /\ DumpIdle

\* dump_database_schema, up to the arguments pg_dump is started with.
GetDumpArgs ==
    /\ pc = "get_dump_args"
    /\ dump_args' = get_dump_args(options, ConnectionUri)
    /\ pc' = "plan"
    /\ UNCHANGED <<optionVars, discovered, plan, csvVars, mobileVars,
                   dumpVars, restVars>>

\* dump_database_data, up to the plan it iterates over.
PlanTables ==
    /\ pc = "plan"
    /\ plan' = database_tables_subset_config(options, discovered)
    /\ pc' = "planned"
    /\ UNCHANGED <<optionVars, discovered, dump_args, csvVars, mobileVars,
                   dumpVars, restVars>>

NextPlan ==
    \/ GetDumpArgs
    \/ PlanTables

SpecPlan == InitPlan /\ [][NextPlan]_vars

\* The tables of the entries of a plan.
PlanHas(table) == \E i \in 1..Len(plan) : table_config(plan[i]) = table

\* C2: when only_tables has two or more entries, the plan contains only
\* tables listed in only_tables.
C2_OnlyTablesPrecedence ==
    (pc = "planned" /\ Len(options.only_tables) >= 2) =>
        \A i \in 1..Len(plan) :
            Contains(options.only_tables, only_config(table_config(plan[i])))

\* C2: a plan made under two or more only_tables entries that holds a table
\* outside only_tables.
C2_SubsetOutsideOnlyTables ==
    /\ pc = "planned"
    /\ Len(options.only_tables) >= 2
    /\ \E i \in 1..Len(plan) :
           ~Contains(options.only_tables, only_config(table_config(plan[i])))

\* C3: when only_tables has fewer than two entries, no table of skip is in
\* the plan, and every discovered table that is not in skip is in the plan.
C3_SkipExcluded ==
    (pc = "planned" /\ Len(options.only_tables) < 2) =>
        /\ \A i \in 1..Len(plan) :
               ~Contains(options.skip_config, table_config(plan[i]))
        /\ \A j \in 1..Len(discovered) :
               ~Contains(options.skip_config, discovered[j])
                   => PlanHas(discovered[j])

\* C3: a plan made under fewer than two only_tables entries that holds a
\* table of skip.
C3_SkippedTablePlanned ==
    /\ pc = "planned"
    /\ Len(options.only_tables) < 2
    /\ \E i \in 1..Len(plan) :
           Contains(options.skip_config, table_config(plan[i]))

\* The descriptors of the bundle, in configuration order.
DescriptorList ==
    IF options.database_subset.some THEN options.database_subset.val ELSE <<>>

\* The number of plan entries / of descriptors that name a table.
PlanCount(table) ==
    Cardinality({i \in 1..Len(plan) : table_config(plan[i]) = table})

DescriptorCount(table) ==
    Cardinality({k \in 1..Len(DescriptorList) :
                    table_config(DescriptorList[k]) = table})

\* C4 as stated: every table named in a descriptor is in the plan exactly
\* once, with its configured strategy, after all default entries and in
\* configuration order, also when introspection did not return it; a
\* discovered table that has a descriptor gets no default entry.
C4_DescriptorTablePlannedOnce ==
    pc = "planned" =>
        \A k \in 1..Len(DescriptorList) :
            LET table == table_config(DescriptorList[k])
                at == Len(plan) - Len(DescriptorList) + k
            IN /\ PlanCount(table) = 1
               /\ at >= 1
               /\ plan[at] = DescriptorList[k]

\* C4 as amended: the plan ends with the descriptors, each with its
\* strategy and in configuration order, whatever introspection returned;
\* every entry before them is the default entry of a discovered table that
\* no descriptor names; so a table is planned once per descriptor naming it.
C4_DescriptorsAppended ==
    pc = "planned" =>
        LET n == Len(DescriptorList)
            m == Len(plan) - n
        IN /\ m >= 0
           /\ \A k \in 1..n : plan[m + k] = DescriptorList[k]
           /\ \A i \in 1..m :
                  /\ plan[i].strategy = "None"
                  /\ Contains(discovered, table_config(plan[i]))
                  /\ DescriptorCount(table_config(plan[i])) = 0
                  /\ PlanCount(table_config(plan[i])) = 1
           /\ \A t \in TableIds :
                  DescriptorCount(t) > 0 => PlanCount(t) = DescriptorCount(t)

\* C4: a plan with a default entry, a descriptor whose table introspection
\* did not return, and a discovered table that has a descriptor.
C4_Witness ==
    /\ pc = "planned"
    /\ Len(DescriptorList) >= 2
    /\ Len(plan) > Len(DescriptorList)
    /\ \E k \in 1..Len(DescriptorList) :
           /\ ~Contains(discovered, table_config(DescriptorList[k]))
           /\ DescriptorList[k].strategy # "None"
    /\ \E k \in 1..Len(DescriptorList) :
           Contains(discovered, table_config(DescriptorList[k]))

\* The --table flags among the arguments pg_dump was started with.
FlaggedTables ==
    { t \in TableIds :
        \E i \in 1..Len(dump_args) : dump_args[i] = TableArg(t) }

\* C27: when pg_dump is restricted with --table flags (only_tables is not
\* empty), every table of the data-phase plan is among the flagged tables,
\* also when only_tables has exactly one entry.
C27_ExportedTablesAreFlagged ==
    (pc = "planned" /\ options.only_tables # <<>>) =>
        /\ FlaggedTables # {}
        /\ \A i \in 1..Len(plan) : table_config(plan[i]) \in FlaggedTables

\* C27: only_tables holds public.orders alone and no descriptor is
\* configured; pg_dump got the one flag and the plan holds public.customers.
C27_UnflaggedTablePlanned ==
    /\ pc = "planned"
    /\ options.only_tables = <<DbTableConfig("public", "orders")>>
    /\ ~options.database_subset.some
    /\ options.skip_config = <<>>
    /\ dump_args[Len(dump_args)] = <<"--table=", "public", ".", "orders">>
    /\ FlaggedTables = {DbTableConfig("public", "orders")}
    /\ PlanHas(DbTableConfig("public", "customers"))

----------------------------------------------------------------------------
(* Text.  A text is a sequence of one-character strings. *)

TAB == "\t"
NL == "\n"
QUOTE == "\""

Digits == <<"0", "1", "2", "3", "4", "5", "6", "7", "8", "9">>

IsDigit(c) == \E d \in 1..Len(Digits) : Digits[d] = c

DigitVal(c) == (CHOOSE d \in 1..Len(Digits) : Digits[d] = c) - 1

AllDigits(s) == \A i \in 1..Len(s) : IsDigit(s[i])

RECURSIVE DigitsValue(_)
DigitsValue(s) ==
    IF s = <<>> THEN 0
    ELSE 10 * DigitsValue(SubSeq(s, 1, Len(s) - 1)) + DigitVal(s[Len(s)])

RECURSIVE NatToText(_)
NatToText(n) ==
    IF n < 10 THEN <<Digits[n + 1]>>
    ELSE NatToText(n \div 10) \o <<Digits[(n % 10) + 1]>>

\* i128::to_string
IntToText(n) == IF n < 0 THEN <<"-">> \o NatToText(-n) ELSE NatToText(n)

\* The pieces of s between the occurrences of sep (one piece when there is
\* none).
RECURSIVE Split(_, _)
Split(s, sep) ==
    IF \A i \in 1..Len(s) : s[i] # sep THEN <<s>>
    ELSE LET at == CHOOSE i \in 1..Len(s) :
                      s[i] = sep /\ \A j \in 1..(i - 1) : s[j] # sep
         IN <<SubSeq(s, 1, at - 1)>> \o Split(SubSeq(s, at + 1, Len(s)), sep)

\* The pieces of ss joined by sep.
RECURSIVE Join(_, _)
Join(ss, sep) ==
    IF ss = <<>> THEN <<>>
    ELSE IF Len(ss) = 1 THEN ss[1]
    ELSE ss[1] \o <<sep>> \o Join(Tail(ss), sep)

RECURSIVE Concat(_)
Concat(ss) == IF ss = <<>> THEN <<>> ELSE Head(ss) \o Concat(Tail(ss))

----------------------------------------------------------------------------
(* Column values (types::Column) and their parsing from text *)

\* The arms of to_map's match on the column's data type.
IntegerTypes ==
    {"smallint", "integer", "bigint", "decimal", "numeric", "real",
     "double precision", "smallserial", "serial", "bigserial"}

FloatTypes == {"float", "money"}

\* Column variants; every variant carries all fields so that values compare.
NumberValue(n) == [tag |-> "NumberValue", num |-> n, flag |-> FALSE, text |-> <<>>]
BooleanValue(b) == [tag |-> "BooleanValue", num |-> 0, flag |-> b, text |-> <<>>]
\* A float read from decimal text: sign, integer part, fraction digits
\* without trailing zeros.
FloatNumberValue(neg, int, frac) ==
    [tag |-> "FloatNumberValue", num |-> int, flag |-> neg, text |-> frac]
StringValue(s) == [tag |-> "StringValue", num |-> 0, flag |-> FALSE, text |-> s]
NoneValue == [tag |-> "None", num |-> 0, flag |-> FALSE, text |-> <<>>]

ParseError == [ok |-> FALSE, val |-> NoneValue]
Parsed(v) == [ok |-> TRUE, val |-> v]

\* str::parse::<i128>: an optional sign and at least one decimal digit.  The
\* texts of the model are far shorter than the 39 digits of i128::MAX.
ParseI128(s) ==
    LET signed == s # <<>> /\ s[1] \in {"-", "+"}
        body == IF signed THEN Tail(s) ELSE s
    IN IF body = <<>> \/ ~AllDigits(body) THEN ParseError
       ELSE Parsed(NumberValue(IF signed /\ s[1] = "-"
                               THEN 0 - DigitsValue(body)
                               ELSE DigitsValue(body)))

\* str::parse::<bool>: exactly "true" or "false".
ParseBool(s) ==
    IF s = <<"t", "r", "u", "e">> THEN Parsed(BooleanValue(TRUE))
    ELSE IF s = <<"f", "a", "l", "s", "e">> THEN Parsed(BooleanValue(FALSE))
    ELSE ParseError

RECURSIVE StripTrailingZeros(_)
StripTrailingZeros(s) ==
    IF s # <<>> /\ s[Len(s)] = "0"
    THEN StripTrailingZeros(SubSeq(s, 1, Len(s) - 1))
    ELSE s

\* str::parse::<f64> on plain decimal text: an optional sign, digits, and at
\* most one point with digits on at least one side of it.
ParseF64(s) ==
    LET signed == s # <<>> /\ s[1] \in {"-", "+"}
        body == IF signed THEN Tail(s) ELSE s
        parts == Split(body, ".")
        int == parts[1]
        frac == IF Len(parts) = 2 THEN parts[2] ELSE <<>>
    IN IF \/ Len(parts) > 2
          \/ ~AllDigits(int) \/ ~AllDigits(frac)
          \/ (int = <<>> /\ frac = <<>>)
       THEN ParseError
       ELSE Parsed(FloatNumberValue(signed /\ s[1] = "-", DigitsValue(int),
                                    StripTrailingZeros(frac)))

\* The text transform() pushes for a column value (v.to_string()).
ColumnText(v) ==
    CASE v.tag = "BooleanValue" ->
            IF v.flag THEN <<"t", "r", "u", "e">> ELSE <<"f", "a", "l", "s", "e">>
      [] v.tag = "FloatNumberValue" ->
            (IF v.flag THEN <<"-">> ELSE <<>>) \o NatToText(v.num)
            \o (IF v.text = <<>> THEN <<>> ELSE <<".">> \o v.text)
      [] v.tag = "NumberValue" -> IntToText(v.num)
      [] v.tag = "StringValue" -> v.text
      [] v.tag = "None" -> <<>>

----------------------------------------------------------------------------
(* The column codec: CsvSubSource (source/csv_sub_source.rs) *)

\* DbColumnConfig::new
DbColumnConfig(column, data_type, ordinal) ==
    [column |-> column, data_type |-> data_type, ordinal |-> ordinal]

\* Columns ordered by ordinal (SortedVec::from; sort_by in CsvSubSource::new),
\* from a set of columns with distinct ordinals.
RECURSIVE SortedByOrdinal(_)
SortedByOrdinal(cols) ==
    IF cols = {} THEN <<>>
    ELSE LET least == CHOOSE c \in cols : \A d \in cols : c.ordinal <= d.ordinal
         IN <<least>> \o SortedByOrdinal(cols \ {least})

\* CsvSubSource::new
CsvSubSourceNew(csv, columns, transformers) ==
    [csv |-> csv, columns |-> SortedByOrdinal(columns),
     transformers |-> transformers]

\* CsvSubSource::reader and its records(): tab-delimited records, one per
\* line, no header, any width (flexible); empty lines yield no record.  The
\* texts of the model hold no quote, backslash or carriage return.
reader_records(csv) ==
    LET lines == SelectSeq(Split(csv, NL), LAMBDA l : l # <<>>)
    IN [i \in 1..Len(lines) |-> Split(lines[i], TAB)]

\* to_map_column reading the field at the ordinal itself, not at ordinal - 1.
to_map_column_off_by_one(column_config, record) ==
    LET ordinal == column_config.ordinal
    IN IF ordinal >= Len(record) THEN ParseError
       ELSE LET record_str == record[ordinal + 1]
            IN IF column_config.data_type \in IntegerTypes
                   THEN ParseI128(record_str)
               ELSE IF column_config.data_type = "boolean"
                   THEN ParseBool(record_str)
               ELSE IF column_config.data_type \in FloatTypes
                   THEN ParseF64(record_str)
               ELSE Parsed(StringValue(record_str))

\* One iteration of to_map's loop: record.get(ordinal - 1).unwrap() and the
\* parse of the field by the column's data type, each of which may panic.
to_map_column(column_config, record) ==
    LET ordinal == column_config.ordinal - 1
    IN IF ordinal >= Len(record) THEN ParseError
       ELSE LET record_str == record[ordinal + 1]
            IN IF column_config.data_type \in IntegerTypes
                   THEN ParseI128(record_str)
               ELSE IF column_config.data_type = "boolean"
                   THEN ParseBool(record_str)
               ELSE IF column_config.data_type \in FloatTypes
                   THEN ParseF64(record_str)
               ELSE Parsed(StringValue(record_str))

ColumnNames(columns) == {columns[i].column : i \in 1..Len(columns)}

\* CsvSubSource::to_map: the row as a map from column name to value; not ok
\* when an unwrap panics.
to_map(columns, record) ==
    [ok |-> \A i \in 1..Len(columns) : to_map_column(columns[i], record).ok,
     row_columns |->
        [name \in ColumnNames(columns) |->
            LET i == CHOOSE k \in 1..Len(columns) :
                        /\ columns[k].column = name
                        /\ \A l \in (k + 1)..Len(columns) :
                               columns[l].column # name
            IN to_map_column(columns[i], record).val]]

\* The formats and the transform of MobileNumberTransformer
\* (transformer/mobile_number.rs).
\* mod MobileFormats
NUMBER_FORMAT_6 == <<" ", "#", "#", "#", " ", "#", "#", "#">>
NUMBER_FORMAT_7 == <<" ", "#", "#", "#", " ", "#", "#", "#", "#">>
NUMBER_FORMAT_8 == <<" ", "#", "#", "#", "#", " ", "#", "#", "#", "#">>
NUMBER_FORMAT_9 ==
    <<" ", "#", "#", "#", " ", "#", "#", "#", " ", "#", "#", "#">>
NUMBER_FORMAT_10 ==
    <<" ", "#", "#", "#", " ", "#", "#", "#", " ", "#", "#", "#", "#">>
NUMBER_FORMAT_11 ==
    <<" ", "#", "#", "#", " ", "#", "#", "#", "#", " ", "#", "#", "#", "#">>
NUMBER_FORMAT_DEFAULT == <<" ", "#", "#", "#", "#", " ", "#", "#", "#", "#">>

\* The match on tail_length with the arms of 7 and 8 exchanged.
number_format_arms_exchanged(tail_length) ==
    CASE tail_length = 6 -> NUMBER_FORMAT_6
      [] tail_length = 7 -> NUMBER_FORMAT_8
      [] tail_length = 8 -> NUMBER_FORMAT_7
      [] tail_length = 9 -> NUMBER_FORMAT_9
      [] tail_length = 10 -> NUMBER_FORMAT_10
      [] tail_length = 11 -> NUMBER_FORMAT_11
      [] OTHER -> NUMBER_FORMAT_DEFAULT

\* The match on tail_length in transform.
number_format(tail_length) ==
    CASE tail_length = 6 -> NUMBER_FORMAT_6
      [] tail_length = 7 -> NUMBER_FORMAT_7
      [] tail_length = 8 -> NUMBER_FORMAT_8
      [] tail_length = 9 -> NUMBER_FORMAT_9
      [] tail_length = 10 -> NUMBER_FORMAT_10
      [] tail_length = 11 -> NUMBER_FORMAT_11
      [] OTHER -> NUMBER_FORMAT_DEFAULT

\* NumberWithFormat(format).fake(): every # becomes a decimal digit and the
\* other characters stay.  The digits are random; the model draws the digit
\* string from a seed.
fake(format, seed) ==
    [i \in 1..Len(format) |->
        IF format[i] = "#" THEN Digits[((seed + i) % 10) + 1] ELSE format[i]]

\* usize::MAX + 1 is not representable; a wrapped difference only has to
\* miss the arms 6..11.
WrappedUsize == 0 - 1

\* length as usize - prefix.len(): the subtraction of two usize values.  When
\* it underflows, a build with overflow checks panics and one without wraps.
tail_length_of(opts) ==
    LET prefix == NatToText(opts.country_code)
    IN IF opts.length >= Len(prefix)
       THEN [ok |-> TRUE, val |-> opts.length - Len(prefix)]
       ELSE IF opts.build = "debug" THEN [ok |-> FALSE, val |-> 0]
       ELSE [ok |-> TRUE, val |-> WrappedUsize]

\* MobileNumberTransformer::transform.  A string column becomes the country
\* code followed by the faked digits; any other column is returned as it is
\* (the model keeps the tag of the column and the text of a string).
mobile_transform(opts) ==
    LET prefix == NatToText(opts.country_code)
        tail_length == tail_length_of(opts)
    IN IF ~tail_length.ok THEN [ok |-> FALSE, tag |-> "None", text |-> <<>>]
       ELSE IF opts.column_tag = "StringValue"
       THEN [ok |-> TRUE, tag |-> "StringValue",
             text |-> prefix \o fake(number_format(tail_length.val), opts.seed)]
       ELSE [ok |-> TRUE, tag |-> opts.column_tag, text |-> <<>>]

\* MobileNumberOptions::default()
DefaultCountryCode == 1
DefaultLength == 11

\* Transformer::transform of the transformers of the model.
\* BlankTransformer returns Column::None for every column;
\* MobileNumberTransformer (here with its default options and the digit
\* stream of seed 0) rewrites a string column and returns any other as it is.
transformer_transform(transformer, column) ==
    CASE transformer.id = "blank" -> NoneValue
      [] transformer.id = "mobile-number" ->
            IF column.tag = "StringValue"
            THEN StringValue(
                     mobile_transform(
                         [country_code |-> DefaultCountryCode,
                          length |-> DefaultLength, build |-> "debug",
                          seed |-> 0, column_tag |-> "StringValue"]).text)
            ELSE column
      [] OTHER -> column

\* The transformers of a CsvSubSource: a map from column name to
\* transformer (HashMap<String, &Box<dyn Transformer>>), kept as the sequence
\* of its entries, one per key.
TransformerKeys(transformers) ==
    {transformers[i].column_name : i \in 1..Len(transformers)}

TransformerOf(transformers, name) ==
    transformers[CHOOSE i \in 1..Len(transformers) :
                    transformers[i].column_name = name]

\* CsvSubSource::transform: every bound transformer rewrites its column
\* (get(attribute).unwrap() panics when the row has no such column), then the
\* columns are emitted as text in ordinal order.
transform(columns, transformers, row_columns) ==
    LET new_columns ==
            [name \in DOMAIN row_columns |->
                IF name \in TransformerKeys(transformers)
                THEN transformer_transform(TransformerOf(transformers, name),
                                           row_columns[name])
                ELSE row_columns[name]]
    IN [ok |-> TransformerKeys(transformers) \subseteq DOMAIN row_columns,
        transformed |->
            [i \in 1..Len(columns) |-> ColumnText(new_columns[columns[i].column])]]

\* CsvSubSource::to_csv: the fields joined by tabs and ended by the record
\* terminator; a record that wrote no byte is written as two quotes.
to_csv(transformed) ==
    LET fields == Join(transformed, TAB)
    IN IF fields = <<>> THEN <<QUOTE, QUOTE, NL>> ELSE fields \o <<NL>>

\* The body of process's loop for one record.
process_record(src, record) ==
    LET mapped == to_map(src.columns, record)
        emitted == transform(src.columns, src.transformers, mapped.row_columns)
    IN IF ~mapped.ok THEN [ok |-> FALSE, csv |-> <<>>]
       ELSE IF ~emitted.ok THEN [ok |-> FALSE, csv |-> <<>>]
       ELSE [ok |-> TRUE, csv |-> to_csv(emitted.transformed)]

\* CsvSubSource::process: the lines of all records, joined by "".
process(src) ==
    LET records == reader_records(src.csv)
        lines == [i \in 1..Len(records) |-> process_record(src, records[i])]
    IN IF \E i \in 1..Len(lines) : ~lines[i].ok
       THEN [ok |-> FALSE, csv |-> <<>>]
       ELSE [ok |-> TRUE,
             csv |-> Concat([i \in 1..Len(lines) |-> lines[i].csv])]

\* The inputs of the codec: one row of text and the columns of its table.
MaxCsvLen == 4
MaxCsvColumns == 2

CsvChars == {"a", "0", "7", TAB}

CsvDataTypes == {"integer", "boolean", "float", "varchar"}

ColumnName(ordinal) == <<"c1", "c2", "c3", "c4", "c5", "c6">>[ordinal]

\* Ordinals are unique and at least 1; they need not be contiguous.
CsvColumnSets ==
    { cols \in SUBSET { DbColumnConfig(ColumnName(o), t, o) :
                          o \in 1..(MaxCsvColumns + 1), t \in CsvDataTypes } :
        /\ Cardinality(cols) <= MaxCsvColumns
        /\ \A c, d \in cols : c.ordinal = d.ordinal => c = d }

CsvTransformerMaps ==
    { <<>>, <<Transformer("blank", "public", "orders", ColumnName(1))>> }

InitCsv ==
    /\ pc = "process"
    /\ OptionsIdle
    /\ PlanIdle
    /\ \E csv \in SeqsUpTo(CsvChars, MaxCsvLen), cols \in CsvColumnSets,
          trs \in CsvTransformerMaps :
            sub_source = CsvSubSourceNew(csv, cols, trs)
    /\ processed = NotProcessed
    /\ MobileIdle
    /\ DumpIdle

\* CsvSubSource::process
Process ==
    /\ pc = "process"
    /\ processed' = process(sub_source)
    /\ pc' = "processed"
    /\ UNCHANGED <<optionVars, planVars, sub_source, mobileVars, dumpVars,
                   restVars>>

NextCsv == Process

SpecCsv == InitCsv /\ [][NextCsv]_vars

\* The row of the sub source has as many fields as its table has columns.
OneRowOfNFields ==
    /\ \A i \in 1..Len(sub_source.csv) : sub_source.csv[i] # NL
    /\ Len(Split(sub_source.csv, TAB)) = Len(sub_source.columns)

CanonicalNat(s) == s # <<>> /\ AllDigits(s) /\ (s[1] = "0" => Len(s) = 1)

CanonicalInt(s) ==
    \/ CanonicalNat(s)
    \/ s # <<>> /\ s[1] = "-" /\ CanonicalNat(Tail(s)) /\ Tail(s) # <<"0">>

\* Text that f64's Display prints for a plain decimal.
CanonicalFloat(s) ==
    LET body == IF s # <<>> /\ s[1] = "-" THEN Tail(s) ELSE s
        parts == Split(body, ".")
    IN /\ Len(parts) <= 2
       /\ CanonicalNat(parts[1])
       /\ Len(parts) = 2 =>
            /\ parts[2] # <<>> /\ AllDigits(parts[2])
            /\ parts[2][Len(parts[2])] # "0"

\* The field of every typed column is written the way the emitter prints it.
FieldsAsEmitted ==
    LET record == Split(sub_source.csv, TAB)
    IN \A i \in 1..Len(sub_source.columns) :
        LET data_type == sub_source.columns[i].data_type
        IN /\ data_type \in IntegerTypes => CanonicalInt(record[i])
           /\ data_type \in FloatTypes => CanonicalFloat(record[i])
           /\ data_type = "boolean" =>
                record[i] \in {<<"t", "r", "u", "e">>, <<"f", "a", "l", "s", "e">>}

ContiguousOrdinals ==
    \A i \in 1..Len(sub_source.columns) : sub_source.columns[i].ordinal = i

EmittedFields ==
    Split(SubSeq(processed.csv, 1, Len(processed.csv) - 1), TAB)

\* C26: with ordinals that are unique and at least 1, contiguous or not, a
\* row of one field per column is parsed and emitted position by position:
\* the column of rank k is read from field k and emitted at position k, so
\* the field of a column without a transformer comes out where it went in.
C26_PositionsAgree ==
    (pc = "processed" /\ sub_source.csv # <<>> /\ OneRowOfNFields
        /\ FieldsAsEmitted
        /\ TransformerKeys(sub_source.transformers)
             \subseteq ColumnNames(sub_source.columns))
    => /\ processed.ok
       /\ Len(EmittedFields) = Len(sub_source.columns)
       /\ \A k \in 1..Len(sub_source.columns) :
             sub_source.columns[k].column
                 \notin TransformerKeys(sub_source.transformers)
             => EmittedFields[k] = Split(sub_source.csv, TAB)[k]

\* C26: two string columns of ordinals 1 and 3 and a row of two fields: the
\* second column is looked up at field 3 and process panics.
C26_PanicOnOrdinalGap ==
    /\ pc = "processed"
    /\ sub_source.transformers = <<>>
    /\ Len(sub_source.columns) = 2
    /\ sub_source.columns[1].ordinal = 1
    /\ sub_source.columns[2].ordinal = 3
    /\ sub_source.columns[1].data_type = "varchar"
    /\ sub_source.columns[2].data_type = "varchar"
    /\ sub_source.csv = <<"a", TAB, "0">>
    /\ ~processed.ok

----------------------------------------------------------------------------
(* MobileNumberTransformer (transformer/mobile_number.rs) *)

U8Max == 255

CountryCodes == {0, 1, 61, 255}
FakeSeeds == {0, 3, 9}

InitMobile ==
    /\ pc = "transform"
    /\ OptionsIdle
    /\ PlanIdle
    /\ CsvIdle
    /\ mobile \in [country_code : CountryCodes, length : 0..U8Max,
                   build : {"debug", "release"}, seed : FakeSeeds,
                   column_tag : {"StringValue", "NumberValue"}]
    /\ mobile_out = NoMobileOut
    /\ DumpIdle

\* MobileNumberTransformer::transform
MobileTransform ==
    /\ pc = "transform"
    /\ mobile_out' = mobile_transform(mobile)
    /\ pc' = "transformed"
    /\ UNCHANGED <<optionVars, planVars, csvVars, mobile, dumpVars, restVars>>

NextMobile == MobileTransform

SpecMobile == InitMobile /\ [][NextMobile]_vars

\* The text starts with the given prefix.
StartsWith(text, prefix) ==
    Len(text) >= Len(prefix) /\ SubSeq(text, 1, Len(prefix)) = prefix

\* The number of digits of a text; the spaces between them are not counted.
DigitCount(text) == Cardinality({i \in 1..Len(text) : IsDigit(text[i])})

OnlyDigitsAndSpaces(text) ==
    \A i \in 1..Len(text) : IsDigit(text[i]) \/ text[i] = " "

MobileTail ==
    SubSeq(mobile_out.text, Len(NatToText(mobile.country_code)) + 1,
           Len(mobile_out.text))

\* C10 as stated: for 7 <= length <= 14 and a string input the result starts
\* with the decimal text of the country code and has exactly
\* length - len(str(country_code)) digits after it, spaces ignored.
C10_MobileDigits ==
    (pc = "transformed" /\ mobile.column_tag = "StringValue"
        /\ mobile.length >= 7 /\ mobile.length <= 14)
    => /\ mobile_out.ok
       /\ StartsWith(mobile_out.text, NatToText(mobile.country_code))
       /\ DigitCount(MobileTail)
            = mobile.length - Len(NatToText(mobile.country_code))

\* C10 as amended: the digits after the country code are as many as the tail
\* length length - len(str(country_code)) when that is 6 to 11, and 8 for
\* every other tail length.
C10_MobileDigitsOrDefault ==
    (pc = "transformed" /\ mobile.column_tag = "StringValue"
        /\ mobile.length >= 7 /\ mobile.length <= 14)
    => LET tail == mobile.length - Len(NatToText(mobile.country_code))
       IN /\ mobile_out.ok
          /\ mobile_out.tag = "StringValue"
          /\ StartsWith(mobile_out.text, NatToText(mobile.country_code))
          /\ OnlyDigitsAndSpaces(MobileTail)
          /\ DigitCount(MobileTail)
                = IF tail >= 6 /\ tail <= 11 THEN tail ELSE 8

\* C10: a number of country code 61 and length 11 (nine digits follow), and
\* one of length 14 (tail 12: the default eight digits follow).
C10_Witness ==
    /\ pc = "transformed"
    /\ mobile.column_tag = "StringValue"
    /\ mobile.country_code = 61
    /\ mobile.length = 11
    /\ mobile_out.ok
    /\ DigitCount(MobileTail) = 9

C10_WitnessDefault ==
    /\ pc = "transformed"
    /\ mobile.column_tag = "StringValue"
    /\ mobile.country_code = 61
    /\ mobile.length = 14
    /\ DigitCount(MobileTail) = 8

\* C29: for every country_code and length in 0..255 and every column the
\* tail length is computed without underflow (the transform returns and the
\* difference has not wrapped); a string column gets the digits of the
\* grouping of its tail length, 6 to 11 their own and every other the
\* default of 8; any other column is returned unchanged.
C29_TailLengthWithoutUnderflow ==
    pc = "transformed"
    => LET prefix == NatToText(mobile.country_code)
           tail_length == tail_length_of(mobile)
       IN /\ tail_length.ok
          /\ tail_length.val # WrappedUsize
          /\ mobile_out.ok
          /\ mobile_out.tag = mobile.column_tag
          /\ mobile.column_tag = "StringValue" =>
                /\ StartsWith(mobile_out.text, prefix)
                /\ DigitCount(MobileTail)
                     = IF tail_length.val >= 6 /\ tail_length.val <= 11
                       THEN tail_length.val ELSE 8

\* C29: a length smaller than the number of digits of the country code, in a
\* build with overflow checks: the transform panics, and does so for a
\* column that is not a string too.
C29_UnderflowPanics ==
    /\ pc = "transformed"
    /\ mobile.build = "debug"
    /\ mobile.length < Len(NatToText(mobile.country_code))
    /\ mobile.column_tag = "NumberValue"
    /\ ~mobile_out.ok

----------------------------------------------------------------------------
(* The Postgres dump driver (source/postgres.rs): Source::read *)

\* Source::read: the schema is dumped first and the data after it.
read_steps_data_first == <<"dump_database_data", "dump_database_schema">>

read_steps == <<"dump_database_schema", "dump_database_data">>

\* Source::read: where a step that returned Ok hands over to.
StepAfter(step) == IF step = read_steps[1] THEN read_steps[2] ELSE "Ok"

\* generate_sql_copy_template: the \COPY line of a table, the column names
\* joined with commas in the order of the SortedVec.
generate_sql_copy_template(subset_config, cols) ==
    <<"\\COPY ", subset_config.database, ".", subset_config.table, " (">>
    \o Join([i \in 1..Len(cols) |-> <<cols[i].column>>], ",")
    \o <<") FROM stdin (delimiter E'\t', FORMAT csv, QUOTE E'T');">>

\* get_applicable_transformers with the first transformer of a column kept
\* instead of the last.
get_applicable_transformers_first_kept(table, opts) ==
    LET all == opts.transformers
        kept == { i \in 1..Len(all) :
                    /\ all[i].table_name = table.table
                    /\ all[i].database_name = table.database
                    /\ \A j \in 1..(i - 1) :
                          ~ /\ all[j].table_name = table.table
                            /\ all[j].database_name = table.database
                            /\ all[j].column_name = all[i].column_name }
        transformers == SelectSeq([i \in 1..Len(all) |->
                                      IF i \in kept THEN <<all[i]>> ELSE <<>>],
                                  LAMBDA t : t # <<>>)
    IN IF kept = {} THEN None
       ELSE Some([i \in 1..Len(transformers) |-> transformers[i][1]])

\* get_applicable_transformers: the transformers of the table by column
\* name; a later transformer of a column replaces an earlier one.
get_applicable_transformers(table, opts) ==
    LET all == opts.transformers
        kept == { i \in 1..Len(all) :
                    /\ all[i].table_name = table.table
                    /\ all[i].database_name = table.database
                    /\ \A j \in (i + 1)..Len(all) :
                          ~ /\ all[j].table_name = table.table
                            /\ all[j].database_name = table.database
                            /\ all[j].column_name = all[i].column_name }
        transformers == SelectSeq([i \in 1..Len(all) |->
                                      IF i \in kept THEN <<all[i]>> ELSE <<>>],
                                  LAMBDA t : t # <<>>)
    IN IF kept = {} THEN None
       ELSE Some([i \in 1..Len(transformers) |-> transformers[i][1]])

\* SortedVec::to_vec handed to CsvSubSource::new.
to_vec(cols) == {cols[i] : i \in 1..Len(cols)}

\* transform_csv
transform_csv(csv, cols, transformers) ==
    process(CsvSubSourceNew(csv, to_vec(cols), transformers))

\* unmodified_callback: the query is passed as both payloads.
unmodified_callback(phase, query) ==
    [phase |-> phase, original |-> query, transformed |-> query]

\* modified_callback
modified_callback(phase, a_query, b_query) ==
    [phase |-> phase, original |-> a_query, transformed |-> b_query]

\* The closure of read_table_data without the None arm of the match: the
\* rows of a table without transformers go through transform_csv too.
read_table_data_always_transformed(opts, subset_config, cols, rows) ==
    LET sql_copy_template == generate_sql_copy_template(subset_config, cols)
        query == sql_copy_template \o <<NL>> \o rows \o <<NL, "\\", ".", NL>>
        applicable == get_applicable_transformers(table_config(subset_config),
                                                  opts)
        transformed_csv_rows == transform_csv(rows, cols, applicable.val)
        transformed_query ==
            sql_copy_template \o <<NL>> \o transformed_csv_rows.csv
                \o <<NL, "\\", ".">>
    IN IF ~transformed_csv_rows.ok
       THEN [ok |-> FALSE, call |-> NoCallback]
       ELSE [ok |-> TRUE,
             call |-> modified_callback("data", query, transformed_query)]

\* The closure of read_table_data applied to one batch of rows: the call of
\* query_callback it makes, or the panic of transform_csv.
read_table_data(opts, subset_config, cols, rows) ==
    LET sql_copy_template == generate_sql_copy_template(subset_config, cols)
        query == sql_copy_template \o <<NL>> \o rows \o <<NL, "\\", ".", NL>>
        applicable == get_applicable_transformers(table_config(subset_config),
                                                  opts)
        transformed_csv_rows == transform_csv(rows, cols, applicable.val)
        transformed_query ==
            sql_copy_template \o <<NL>> \o transformed_csv_rows.csv
                \o <<NL, "\\", ".">>
    IN IF ~applicable.some
       THEN [ok |-> TRUE, call |-> unmodified_callback("data", query)]
       ELSE IF ~transformed_csv_rows.ok
       THEN [ok |-> FALSE, call |-> NoCallback]
       ELSE [ok |-> TRUE,
             call |-> modified_callback("data", query, transformed_query)]

\* The statements pg_dump --schema-only prints, as read_schema receives them.
SchemaQueries == {<<"CREATE TABLE public.orders ();">>}

MaxSchema == 1
MaxBatches == 2

\* The rows of one batch: the program reads 1000 rows at a time
\* (read_table_data); the model reads BatchSize.
BatchSize == 1

\* Rows that psql prints for a table.
SampleRows ==
    { <<"7">>, <<"x">>,
      <<"7", TAB, "t", "r", "u", "e">>,
      <<"7", TAB, "x">> }

\* list_sql_copy_csv_from_dump_reader: a batch is up to BatchSize rows, one
\* per line.
Batches ==
    { Join(rows, NL) : rows \in SeqsUpTo(SampleRows, BatchSize) \ {<<>>} }

RowsOf(batch) == Split(batch, NL)

\* QueryStruct::database_columns of a table, ordered by ordinal; the empty
\* list is what it returns when the connection fails.
DumpColumnSets ==
    { <<>>,
      SortedByOrdinal({DbColumnConfig(ColumnName(1), "integer", 1)}),
      SortedByOrdinal({DbColumnConfig(ColumnName(2), "boolean", 2),
                       DbColumnConfig(ColumnName(1), "varchar", 1)}) }

\* The configurations of the dumps: with and without a transformer of a
\* column of public.orders, with and without a subset of public.orders.
DumpConfigs ==
    [transformers :
        {None} \cup
        { Some(<<[database |-> "public", table |-> "orders",
                  columns |-> <<[name |-> ColumnName(o),
                                 transformer |-> "blank"]>>]>>) :
            o \in 1..2 },
     skip : {None},
     database_subset :
        {None,
         Some(<<[database |-> "public", table |-> "orders",
                 strategy |-> "ForeignKey"]>>)},
     only_tables : {None}]

SchemaCalls == Len(SelectSeq(log, LAMBDA e : e.phase = "schema"))
DataCalls(entry) ==
    Len(SelectSeq(log, LAMBDA e : e.phase = "data" /\ e.entry = entry))

\* Command::spawn()? and utils::wait_for_command: the child process of an
\* entry of the plan (0 for pg_dump), failed when it could not be spawned or
\* exited with a status other than 0.
Child(command, entry, succeeded) ==
    [process |-> command, entry |-> entry, failed |-> ~succeeded]

\* The match in the loop of dump_database_data with the error of an entry
\* dropped: the loop goes on to the next entry.
after_dump_table_data_ignoring_error(result, entry, entries) ==
    IF entry < entries THEN "dump_table_data"
    ELSE StepAfter("dump_database_data")

\* The match in the loop of dump_database_data: the error of an entry is
\* returned at once, otherwise the loop goes on to the next entry and
\* returns Ok after the last.
after_dump_table_data(result, entry, entries) ==
    IF result.failed THEN "Err"
    ELSE IF entry < entries THEN "dump_table_data"
    ELSE StepAfter("dump_database_data")

\* commands/dump.rs: SourceOptions::new returned Ok and Source::read starts.
Init ==
    /\ pc = read_steps[1]
    /\ config \in DumpConfigs
    /\ new_result = SourceOptionsNewResult(config)
    /\ options = Bundle(config)
    /\ PlanIdle
    /\ CsvIdle
    /\ MobileIdle
    /\ DumpIdle

\* dump_database_schema: pg_dump is spawned, or the spawn fails.
SpawnPgDump ==
    /\ pc = "dump_database_schema"
    /\ \E spawned \in BOOLEAN :
          /\ child' = Child("pg_dump", 0, spawned)
          /\ pc' = IF spawned THEN "read_schema" ELSE "Err"
    /\ dump_args' = get_dump_args(options, ConnectionUri)
    /\ UNCHANGED <<optionVars, discovered, plan, csvVars, mobileVars, table_idx,
                   table_columns, csv_rows, log, last, restVars>>

\* read_schema: one statement of the schema goes to the callback.
ReadSchema ==
    /\ pc = "read_schema"
    /\ SchemaCalls < MaxSchema
    /\ \E query \in SchemaQueries :
          last' = unmodified_callback("schema", query)
    /\ log' = Append(log, [phase |-> "schema", entry |-> 0])
    /\ UNCHANGED <<pc, optionVars, planVars, csvVars, mobileVars, table_idx,
                   table_columns, csv_rows, child, restVars>>

\* dump_database_schema: wait_for_command(pg_dump) and the match of read.
WaitPgDump ==
    /\ pc = "read_schema"
    /\ \E exited_ok \in BOOLEAN :
          /\ child' = Child("pg_dump", 0, exited_ok)
          /\ pc' = IF exited_ok THEN StepAfter("dump_database_schema")
                   ELSE "Err"
    /\ UNCHANGED <<optionVars, planVars, csvVars, mobileVars, table_idx,
                   table_columns, csv_rows, log, last, restVars>>

\* dump_database_data: the tables are discovered and the plan is made.
DumpDatabaseData ==
    /\ pc = "dump_database_data"
    /\ \E tables \in DiscoveredLists :
          /\ discovered' = tables
          /\ plan' = database_tables_subset_config(options, tables)
    /\ table_idx' = 1
    /\ pc' = IF plan' = <<>> THEN StepAfter("dump_database_data")
             ELSE "dump_table_data"
    /\ UNCHANGED <<optionVars, dump_args, csvVars, mobileVars, table_columns,
                   csv_rows, log, last, child, restVars>>

\* dump_table_data: the columns are read and psql is spawned, or the spawn
\* fails.
DumpTableData ==
    /\ pc = "dump_table_data"
    /\ table_columns' \in DumpColumnSets
    /\ \E spawned \in BOOLEAN :
          /\ child' = Child("psql", table_idx, spawned)
          /\ pc' = IF spawned THEN "read_table_data" ELSE "Err"
    /\ UNCHANGED <<optionVars, planVars, csvVars, mobileVars, table_idx,
                   csv_rows, log, last, restVars>>

\* read_table_data: the closure runs on the next batch of rows.  A batch of
\* fewer than BatchSize rows is the last of the table.
ReadTableData ==
    /\ pc = "read_table_data"
    /\ DataCalls(table_idx) < MaxBatches
    /\ \E batch \in Batches :
          LET r == read_table_data(options, plan[table_idx], table_columns,
                                   batch)
          IN /\ csv_rows' = batch
             /\ IF r.ok
                THEN /\ last' = r.call
                     /\ log' = Append(log, [phase |-> "data",
                                            entry |-> table_idx])
                     /\ pc' = IF Len(RowsOf(batch)) < BatchSize
                              THEN "wait_for_command" ELSE pc
                ELSE /\ pc' = "panic"
                     /\ UNCHANGED <<log, last>>
    /\ UNCHANGED <<optionVars, planVars, csvVars, mobileVars, table_idx,
                   table_columns, child, restVars>>

\* read_table_data: psql has printed all its rows.
EndOfOutput ==
    /\ pc = "read_table_data"
    /\ pc' = "wait_for_command"
    /\ UNCHANGED <<optionVars, planVars, csvVars, mobileVars, dumpVars,
                   restVars>>

\* dump_table_data: wait_for_command(psql), and the loop of
\* dump_database_data goes to the next entry of the plan.
WaitPsql ==
    /\ pc = "wait_for_command"
    /\ csv_rows' = <<>>
    /\ \E exited_ok \in BOOLEAN :
          /\ child' = Child("psql", table_idx, exited_ok)
          /\ pc' = after_dump_table_data(child', table_idx, Len(plan))
          /\ table_idx' = IF pc' = "dump_table_data" THEN table_idx + 1
                          ELSE table_idx
    /\ UNCHANGED <<optionVars, planVars, csvVars, mobileVars, table_columns,
                   log, last, restVars>>

Next ==
    \/ SpawnPgDump
    \/ ReadSchema
    \/ WaitPgDump
    \/ DumpDatabaseData
    \/ DumpTableData
    \/ ReadTableData
    \/ EndOfOutput
    \/ WaitPsql

Spec == Init /\ [][Next]_vars

\* C5: every call of the callback with a schema statement comes before the
\* first call with a data block, and the data blocks come entry by entry in
\* the order of the plan: once a block of a later entry is delivered, no
\* block of an earlier entry follows.
C5_SchemaThenTablesInPlanOrder ==
    \A i, j \in 1..Len(log) :
        (i < j /\ log[i].phase = "data")
        => /\ log[j].phase = "data"
           /\ log[i].entry <= log[j].entry
           /\ log[j].entry <= Len(plan)

\* C5: a finished dump with a schema statement, two blocks of the first
\* entry of the plan and a block of the second.
C5_Witness ==
    /\ pc = "Ok"
    /\ SchemaCalls >= 1
    /\ DataCalls(1) = 2
    /\ DataCalls(2) >= 1

\* The latest call of the callback carried a block of the entry of the plan
\* the driver is at, so that table_columns are the columns of that block.
LastIsBlockOfCurrentEntry ==
    /\ Len(log) > 0
    /\ log[Len(log)].phase = "data"
    /\ log[Len(log)].entry = table_idx
    /\ pc \in {"read_table_data", "wait_for_command", "panic"}

\* A data block: the header line, nrows rows, a line of \. and a newline.
IsCopyBlock(payload, header, nrows) ==
    LET prefix == header \o <<NL>>
        suffix == <<NL, "\\", ".", NL>>
    IN /\ Len(payload) >= Len(prefix) + Len(suffix)
       /\ SubSeq(payload, 1, Len(prefix)) = prefix
       /\ SubSeq(payload, Len(payload) - Len(suffix) + 1, Len(payload)) = suffix
       /\ LET body == SubSeq(payload, Len(prefix) + 1,
                             Len(payload) - Len(suffix))
          IN /\ Len(Split(body, NL)) = nrows
             /\ \A k \in 1..nrows : Split(body, NL)[k] # <<>>

AscendingOrdinals(cols) ==
    \A i, j \in 1..Len(cols) : i < j => cols[i].ordinal < cols[j].ordinal

\* C6: every data block handed to the callback, the original payload and the
\* transformed payload alike, is the \COPY header line with the columns in
\* ascending ordinal order, the rows of the batch, a line of \. and a
\* trailing newline.
C6_BlockFormat ==
    LastIsBlockOfCurrentEntry
    => LET header == generate_sql_copy_template(plan[table_idx], table_columns)
           nrows == Len(RowsOf(csv_rows))
       IN /\ AscendingOrdinals(table_columns)
          /\ IsCopyBlock(last.original, header, nrows)
          /\ IsCopyBlock(last.transformed, header, nrows)

\* C6: a transformed block that ends with the line of \. and no newline,
\* while the original block of the same call has it.
C6_TransformedBlockUnterminated ==
    /\ LastIsBlockOfCurrentEntry
    /\ IsCopyBlock(last.original,
                   generate_sql_copy_template(plan[table_idx], table_columns),
                   Len(RowsOf(csv_rows)))
    /\ last.transformed[Len(last.transformed)] = "."

\* The text of a field of a column of this data type does not parse.
Unparsable(data_type, field) ==
    \/ data_type \in IntegerTypes /\ ~ParseI128(field).ok
    \/ data_type = "boolean" /\ ~ParseBool(field).ok
    \/ data_type \in FloatTypes /\ ~ParseF64(field).ok

HasUnparsableField(batch, cols) ==
    \E r \in 1..Len(RowsOf(batch)), i \in 1..Len(cols) :
        LET fields == Split(RowsOf(batch)[r], TAB)
        IN /\ cols[i].ordinal <= Len(fields)
           /\ Unparsable(cols[i].data_type, fields[cols[i].ordinal])

HasRowOfOtherWidth(batch, cols) ==
    \E r \in 1..Len(RowsOf(batch)) :
        Len(Split(RowsOf(batch)[r], TAB)) # Len(cols)

TransformerBound ==
    get_applicable_transformers(table_config(plan[table_idx]), options).some

\* C8: a batch with a field of an integer-family, boolean or float/money
\* column that does not parse ends the dump in an error and is not delivered,
\* whether or not a transformer is bound to the table.
C8_ParseFailureFatal ==
    (csv_rows # <<>> /\ HasUnparsableField(csv_rows, table_columns))
    => pc = "panic"

\* C8: a batch with an unparsable field went to the callback.
C8_UnparsableFieldDelivered ==
    /\ LastIsBlockOfCurrentEntry
    /\ pc # "panic"
    /\ csv_rows # <<>>
    /\ HasUnparsableField(csv_rows, table_columns)

\* C9: a batch with a row of fewer or more fields than the table has columns
\* ends the dump in an error; the row is not emitted.
C9_ColumnCountFatal ==
    (csv_rows # <<>> /\ HasRowOfOtherWidth(csv_rows, table_columns))
    => pc = "panic"

\* C9: a row of more fields than columns went through the transformers of
\* its table and was emitted without the fields beyond the columns.
C9_RowEmittedWithFieldsDropped ==
    /\ LastIsBlockOfCurrentEntry
    /\ pc # "panic"
    /\ csv_rows # <<>>
    /\ TransformerBound
    /\ HasRowOfOtherWidth(csv_rows, table_columns)
    /\ last.transformed # last.original

\* The closure of read_table_data has run on a batch of the entry of the plan
\* the driver is at.
BatchRead ==
    /\ pc \in {"read_table_data", "wait_for_command", "panic"}
    /\ csv_rows # <<>>

\* C25: every batch of a table to which no transformer is bound is delivered
\* to the callback, and the transformed payload of the call is the original
\* payload, which holds the rows as psql printed them: they are neither
\* parsed nor emitted again.
C25_UnboundTableVerbatim ==
    (BatchRead /\ ~TransformerBound) =>
        /\ pc # "panic"
        /\ LastIsBlockOfCurrentEntry
        /\ last.transformed = last.original
        /\ last.original =
              generate_sql_copy_template(plan[table_idx], table_columns)
              \o <<NL>> \o csv_rows \o <<NL, "\\", ".", NL>>

\* C25: a delivered batch of a table without transformers whose row has a
\* field that would not parse as the type of its column.
C25_Witness ==
    /\ BatchRead
    /\ ~TransformerBound
    /\ table_columns # <<>>
    /\ HasUnparsableField(csv_rows, table_columns)
    /\ last.phase = "data"
    /\ last.transformed = last.original

\* database_tables was called and failed to connect (or found no table), and
\* the configuration has no subset descriptor.
NothingDiscovered ==
    /\ table_idx >= 1
    /\ discovered = <<>>
    /\ ~options.database_subset.some

\* C19: a connection failure in database_tables or database_columns gives an
\* empty list and does not abort the dump: no panic follows from the empty
\* column list, and a dump that discovers nothing and has no subset
\* descriptor has made the schema phase, exports no table and returns Ok.
C19_IntrospectionFailureNotFatal ==
    /\ pc = "panic" => table_columns # <<>>
    /\ NothingDiscovered =>
           /\ plan = <<>>
           /\ pc = "Ok"
           /\ \A i \in 1..Len(log) : log[i].phase = "schema"

\* The dump panicked on a row of a table whose column list came back empty.
C19_PanicOnEmptyColumnList ==
    /\ pc = "panic"
    /\ table_columns = <<>>
    /\ TransformerBound
    /\ csv_rows # <<>>

\* C20: when pg_dump or the psql of an entry of the plan cannot be spawned or
\* exits with a status other than 0, read returns an error, no export of a
\* later entry is started and no callback is made for a later entry (after
\* a failure of pg_dump: for no entry at all).
C20_FailureEndsDump ==
    child.failed =>
        /\ pc = "Err"
        /\ table_idx = child.entry
        /\ \A i \in 1..Len(log) : log[i].entry <= child.entry

\* The psql of the first of two entries failed after a block of the entry
\* was delivered, and read returned the error.
C20_Witness ==
    /\ child = Child("psql", 1, FALSE)
    /\ Len(plan) >= 2
    /\ DataCalls(1) >= 1
    /\ pc = "Err"

\* ---------------------------------------------------------------------------
\* The embedded-payload codecs (source/hstore.rs, source/json.rs) and the
\* compound transformers (transformer/hstore_attr.rs, json_attrs.rs).
\* ---------------------------------------------------------------------------

Quote == "\""

\* The separators of the two formats, character by character.
HstorePairSeparator == <<Quote, ",", " ", Quote>>
HstoreKeyValueSeparator == <<Quote, "=", ">", Quote>>
JsonPairSeparator == <<Quote, ",", " ", Quote>>
JsonKeyValueSeparator == <<Quote, ":", " ", Quote>>

\* Regex ^" replaced by nothing: one leading quote is dropped.
clean_preceding_quotes(s) ==
    IF Len(s) > 0 /\ s[1] = Quote THEN Tail(s) ELSE s

\* Regex "$ replaced by nothing: one trailing quote is dropped.
clean_trailing_quotes(s) ==
    IF Len(s) > 0 /\ s[Len(s)] = Quote THEN SubSeq(s, 1, Len(s) - 1) ELSE s

clean_quotes(s) == clean_trailing_quotes(clean_preceding_quotes(s))

clean_preceding_braces(s) ==
    IF Len(s) > 0 /\ s[1] = "{" THEN Tail(s) ELSE s

clean_trailing_braces(s) ==
    IF Len(s) > 0 /\ s[Len(s)] = "}" THEN SubSeq(s, 1, Len(s) - 1) ELSE s

clean_braces(s) == clean_trailing_braces(clean_preceding_braces(s))

\* sep occurs in s at position i.
OccursAt(s, sep, i) ==
    /\ i + Len(sep) - 1 <= Len(s)
    /\ \A j \in 1..Len(sep) : s[i + j - 1] = sep[j]

\* str::split with a string pattern: the pieces between the leftmost
\* non-overlapping occurrences of sep; never an empty list.
RECURSIVE SplitOn(_, _)
SplitOn(s, sep) ==
    IF \A i \in 1..Len(s) : ~OccursAt(s, sep, i) THEN <<s>>
    ELSE LET at == CHOOSE i \in 1..Len(s) :
                      OccursAt(s, sep, i)
                      /\ \A j \in 1..(i - 1) : ~OccursAt(s, sep, j)
         IN <<SubSeq(s, 1, at - 1)>>
            \o SplitOn(SubSeq(s, at + Len(sep), Len(s)), sep)

\* HashMap::insert: the map with key bound to value, a later insert of the
\* same key replacing the earlier one.
Insert(kv, key, value) ==
    [k \in (DOMAIN kv) \cup {key} |-> IF k = key THEN value ELSE kv[k]]

EmptyMap == [k \in {} |-> <<>>]

\* The loop of from_hstore and from_json over the pairs: each pair is split
\* on the key/value separator and elements 0 and 1 are unwrapped; the unwrap
\* of element 1 panics when the pair holds no separator (ok is FALSE).
RECURSIVE InsertPairs(_, _, _)
InsertPairs(kv, pairs, separator) ==
    IF pairs = <<>> THEN [ok |-> TRUE, kv |-> kv]
    ELSE LET elements == SplitOn(Head(pairs), separator)
         IN IF Len(elements) < 2 THEN [ok |-> FALSE, kv |-> EmptyMap]
            ELSE InsertPairs(Insert(kv, elements[1], elements[2]),
                             Tail(pairs), separator)

from_hstore(s) ==
    LET clean_string == clean_quotes(s)
    IN InsertPairs(EmptyMap, SplitOn(clean_string, HstorePairSeparator),
                   HstoreKeyValueSeparator)

from_json(s) ==
    LET clean_string == clean_quotes(clean_braces(s))
    IN InsertPairs(EmptyMap, SplitOn(clean_string, JsonPairSeparator),
                   JsonKeyValueSeparator)

\* The pieces of ss joined by the string sep.
RECURSIVE JoinOn(_, _)
JoinOn(ss, sep) ==
    IF ss = <<>> THEN <<>>
    ELSE IF Len(ss) = 1 THEN ss[1]
    ELSE ss[1] \o sep \o JoinOn(Tail(ss), sep)

\* The orders in which HashMap::iter may yield the keys of kv.
KeyOrders(kv) ==
    LET n == Cardinality(DOMAIN kv)
    IN {order \in [1..n -> DOMAIN kv] :
           \A i, j \in 1..n : order[i] = order[j] => i = j}

\* to_hstore, the keys visited in the given order.
to_hstore(kv, order) ==
    LET values == [i \in 1..Len(order) |->
                      order[i] \o HstoreKeyValueSeparator \o kv[order[i]]]
    IN <<Quote>> \o JoinOn(values, HstorePairSeparator) \o <<Quote>>

\* to_json, the keys visited in the given order.
to_json(kv, order) ==
    LET values == [i \in 1..Len(order) |->
                      order[i] \o JsonKeyValueSeparator \o kv[order[i]]]
    IN <<"{", Quote>> \o JoinOn(values, JsonPairSeparator) \o <<Quote, "}">>

\* transformer_type_config.transformer(..).transform(attribute_column) for
\* the child transformers of the model, applied to a string column:
\* BlankTransformer returns Column::None, MobileNumberTransformer with its
\* default options a string column holding a faked number.
child_transform(kind, seed) ==
    CASE kind = "blank" -> [ok |-> TRUE, tag |-> "None", text |-> <<>>]
      [] kind = "mobile-number" ->
            mobile_transform([country_code |-> DefaultCountryCode,
                              length |-> DefaultLength, build |-> "debug",
                              seed |-> seed, column_tag |-> "StringValue"])

\* The loop of transform over the configured attributes: a key that is
\* present has its value rewritten when the child returns a string column.
RECURSIVE apply_children(_, _, _)
apply_children(state, transformers, seed) ==
    IF transformers = <<>> THEN state
    ELSE LET option == Head(transformers)
             new_column == child_transform(option.kind, seed)
         IN IF option.attribute \in DOMAIN state.kv
               /\ new_column.tag = "StringValue"
            THEN apply_children(
                     [kv |-> Insert(state.kv, option.attribute,
                                    new_column.text),
                      transformed |-> TRUE],
                     Tail(transformers), seed)
            ELSE apply_children(state, Tail(transformers), seed)

Panicked == [ok |-> FALSE, tag |-> "None", value |-> <<>>]
Returned(tag, value) == [ok |-> TRUE, tag |-> tag, value |-> value]

\* The end of transform: the map is serialized again only when a child
\* changed it; otherwise the clone of the column is returned.
attr_result(column, parsed) ==
    IF ~parsed.ok THEN {Panicked}
    ELSE LET state == apply_children(
                 [kv |-> parsed.kv, transformed |-> FALSE],
                 column.options, column.seed)
         IN IF state.transformed
            THEN {Returned("StringValue",
                           IF column.codec = "hstore"
                           THEN to_hstore(state.kv, order)
                           ELSE to_json(state.kv, order)) :
                      order \in KeyOrders(state.kv)}
            ELSE {Returned(column.tag, column.value)}

\* HstoreAttrTransformer::transform: the columns it may return (one per
\* iteration order of the map).
hstore_attr_transform(column) ==
    IF column.tag = "StringValue"
    THEN attr_result(column, from_hstore(column.value))
    ELSE {Returned(column.tag, column.value)}

\* JsonAttrTransformer::transform
json_attr_transform(column) ==
    IF column.tag = "StringValue"
    THEN attr_result(column, from_json(column.value))
    ELSE {Returned(column.tag, column.value)}

\* The cells of the model: a payload of up to MaxPairs pairs, each a key and
\* a value around the key/value separator or a pair without one (as in
\* "k"=>NULL), with or without the enclosing delimiters; and one column that
\* is not a string.
MaxPairs == 2
MaxChildren == 2

KvKeys == {<<"m">>, <<"i">>}
KvValues == {<<"5">>, <<"x", "\\", Quote>>, <<"\\", Quote, ",", " ">>}
ChildOptions ==
    [attribute : {<<"m">>, <<"z">>}, kind : {"blank", "mobile-number"}]

PairSeparatorOf(codec) ==
    IF codec = "hstore" THEN HstorePairSeparator ELSE JsonPairSeparator
KeyValueSeparatorOf(codec) ==
    IF codec = "hstore" THEN HstoreKeyValueSeparator
    ELSE JsonKeyValueSeparator

PairTexts(codec) ==
    {key \o KeyValueSeparatorOf(codec) \o value :
         key \in KvKeys, value \in KvValues}
    \cup {<<"m", Quote, "=", ">", "N">>}

Enclosed(codec, body, leading, trailing) ==
    (IF ~leading THEN <<>>
     ELSE IF codec = "hstore" THEN <<Quote>> ELSE <<"{", Quote>>)
    \o body
    \o (IF ~trailing THEN <<>>
        ELSE IF codec = "hstore" THEN <<Quote>> ELSE <<Quote, "}">>)

CellTexts(codec) ==
    {Enclosed(codec, JoinOn(pairs, PairSeparatorOf(codec)), leading, trailing) :
         pairs \in SeqsUpTo(PairTexts(codec), MaxPairs),
         leading \in BOOLEAN, trailing \in BOOLEAN}

KvCells ==
    UNION {[codec : {codec}, options : SeqsUpTo(ChildOptions, MaxChildren),
            seed : FakeSeeds, tag : {"StringValue"},
            value : CellTexts(codec)]
           \cup [codec : {codec}, options : SeqsUpTo(ChildOptions, MaxChildren),
                 seed : {0}, tag : {"NumberValue"}, value : {<<"7">>}] :
           codec \in {"hstore", "json"}}

InitKv ==
    /\ pc = "transform"
    /\ OptionsIdle
    /\ PlanIdle
    /\ CsvIdle
    /\ MobileIdle
    /\ table_idx = 0
    /\ table_columns = <<>>
    /\ csv_rows = <<>>
    /\ log = <<>>
    /\ last = NoCallback
    /\ child = NoChild
    /\ LateIdle
    /\ cell \in KvCells
    /\ cell_out = NoCellOut
    /\ codec_in = NoMap
    /\ codec_out = NoMapOut
    /\ ConfIdle
    /\ InitIdle
    /\ BindIdle

\* HstoreAttrTransformer::transform
HstoreAttrTransform ==
    /\ pc = "transform"
    /\ cell.codec = "hstore"
    /\ cell_out' \in hstore_attr_transform(cell)
    /\ pc' = IF cell_out'.ok THEN "transformed" ELSE "panic"
    /\ UNCHANGED <<optionVars, planVars, csvVars, mobileVars, dumpVars, cell,
                   codec_in, codec_out, confVars, initVars, bindVars,
                   lateVars>>

\* JsonAttrTransformer::transform
JsonAttrTransform ==
    /\ pc = "transform"
    /\ cell.codec = "json"
    /\ cell_out' \in json_attr_transform(cell)
    /\ pc' = IF cell_out'.ok THEN "transformed" ELSE "panic"
    /\ UNCHANGED <<optionVars, planVars, csvVars, mobileVars, dumpVars, cell,
                   codec_in, codec_out, confVars, initVars, bindVars,
                   lateVars>>

NextKv == HstoreAttrTransform \/ JsonAttrTransform

SpecKv == InitKv /\ [][NextKv]_vars

\* The payload of a cell as its own codec reads it.
Payload(codec, text) ==
    IF codec = "hstore" THEN from_hstore(text) ELSE from_json(text)

ConfiguredAttributes(column) ==
    {column.options[i].attribute : i \in 1..Len(column.options)}

\* The transformer returned a string column for a string cell.
StringCellReturned ==
    /\ pc = "transformed"
    /\ cell.tag = "StringValue"
    /\ cell_out.tag = "StringValue"

\* C11: when a compound transformer returns for a string cell, the payload of
\* the output has the keys of the payload of the input, and every key that is
\* not a configured attribute has the value it had.
C11_OnlyConfiguredAttributesChange ==
    StringCellReturned =>
        LET input == Payload(cell.codec, cell.value)
            output == Payload(cell.codec, cell_out.value)
        IN /\ input.ok
           /\ output.ok
           /\ DOMAIN output.kv = DOMAIN input.kv
           /\ \A key \in DOMAIN input.kv :
                  key \notin ConfiguredAttributes(cell)
                      => output.kv[key] = input.kv[key]

\* In the output of a returned transform a key that is not a configured
\* attribute has another value than in the input.
C11_UnconfiguredValueChanged ==
    /\ StringCellReturned
    /\ LET input == Payload(cell.codec, cell.value)
           output == Payload(cell.codec, cell_out.value)
       IN /\ input.ok
          /\ output.ok
          /\ \E key \in (DOMAIN input.kv) \cap (DOMAIN output.kv) :
                 /\ key \notin ConfiguredAttributes(cell)
                 /\ output.kv[key] # input.kv[key]

\* The compound transformer has nothing to change in the cell: the cell is
\* not a string, the option list is empty, no configured attribute is a key
\* of the payload, or every child is one that returns a non-string column.
NothingToChange ==
    \/ cell.tag # "StringValue"
    \/ cell.options = <<>>
    \/ LET input == Payload(cell.codec, cell.value)
       IN input.ok /\ ConfiguredAttributes(cell) \cap DOMAIN input.kv = {}
    \/ \A i \in 1..Len(cell.options) : cell.options[i].kind = "blank"

\* C12: a compound transformer that has nothing to change returns the input
\* cell as it was given, and a non-string column unchanged.
C12_UnchangedCellReturnedAsGiven ==
    (pc # "transform" /\ NothingToChange)
        => cell_out = Returned(cell.tag, cell.value)

\* transform panicked although the option list is empty.
C12_PanicWithEmptyOptionList ==
    /\ pc = "panic"
    /\ cell.options = <<>>
    /\ ~cell_out.ok

\* A pair of the string cell holds no key/value separator.
HasPairWithoutSeparator ==
    cell.tag = "StringValue" /\ ~Payload(cell.codec, cell.value).ok

\* C13: when a pair of the cell holds no key/value separator, parsing does not
\* fail and the transformer returns the original cell.
C13_MissingSeparatorIsNoOp ==
    (pc # "transform" /\ HasPairWithoutSeparator)
        => cell_out = Returned(cell.tag, cell.value)

\* transform panicked on a cell with a pair that holds no separator.
C13_PanicOnMissingSeparator ==
    /\ pc = "panic"
    /\ HasPairWithoutSeparator
    /\ ~cell_out.ok

\* ---------------------------------------------------------------------------
\* The codecs on their own: a map is serialized and parsed again.
\* ---------------------------------------------------------------------------

MaxMapSize == 2

MapKeys == {<<"m">>, <<"i">>, <<"e">>}
MapValues == {<<"5">>, <<>>, <<"x", "\\", Quote>>, <<"\\", Quote, ",", " ">>}

\* The maps of up to MaxMapSize keys.
Maps ==
    UNION {[keys -> MapValues] :
               keys \in {ks \in SUBSET MapKeys : Cardinality(ks) <= MaxMapSize}}

InitCodec ==
    /\ pc = "serialize"
    /\ OptionsIdle
    /\ PlanIdle
    /\ CsvIdle
    /\ MobileIdle
    /\ table_idx = 0
    /\ table_columns = <<>>
    /\ csv_rows = <<>>
    /\ log = <<>>
    /\ last = NoCallback
    /\ child = NoChild
    /\ LateIdle
    /\ cell = NoCell
    /\ cell_out = NoCellOut
    /\ codec_in \in [codec : {"hstore", "json"}, order : {<<>>}, kv : Maps]
    /\ codec_out = NoMapOut
    /\ ConfIdle
    /\ InitIdle
    /\ BindIdle

\* from_hstore(to_hstore(&kv)), the map iterated in some order.
HstoreRoundTrip ==
    /\ pc = "serialize"
    /\ codec_in.codec = "hstore"
    /\ \E order \in KeyOrders(codec_in.kv) :
           /\ codec_in' = [codec_in EXCEPT !.order = order]
           /\ codec_out' = from_hstore(to_hstore(codec_in.kv, order))
    /\ pc' = IF codec_out'.ok THEN "parsed" ELSE "panic"
    /\ UNCHANGED <<optionVars, planVars, csvVars, mobileVars, dumpVars, cell,
                   cell_out, confVars, initVars, bindVars,
                   lateVars>>

\* from_json(to_json(&kv)), the map iterated in some order.
JsonRoundTrip ==
    /\ pc = "serialize"
    /\ codec_in.codec = "json"
    /\ \E order \in KeyOrders(codec_in.kv) :
           /\ codec_in' = [codec_in EXCEPT !.order = order]
           /\ codec_out' = from_json(to_json(codec_in.kv, order))
    /\ pc' = IF codec_out'.ok THEN "parsed" ELSE "panic"
    /\ UNCHANGED <<optionVars, planVars, csvVars, mobileVars, dumpVars, cell,
                   cell_out, confVars, initVars, bindVars,
                   lateVars>>

NextCodec == HstoreRoundTrip \/ JsonRoundTrip

SpecCodec == InitCodec /\ [][NextCodec]_vars

\* The text holds the pair separator of the hstore format.
HoldsPairSeparator(text) ==
    \E i \in 1..Len(text) : OccursAt(text, HstorePairSeparator, i)

\* No key and no value of the map holds the pair separator.
FreeOfPairSeparator(kv) ==
    \A key \in DOMAIN kv :
        ~HoldsPairSeparator(key) /\ ~HoldsPairSeparator(kv[key])

\* C14: from_hstore(to_hstore(m)) is m for every map m, of any size, whose
\* keys and values hold no pair separator.
C14_HstoreRoundTrip ==
    (pc # "serialize" /\ codec_in.codec = "hstore"
     /\ FreeOfPairSeparator(codec_in.kv))
        => codec_out.ok /\ codec_out.kv = codec_in.kv

\* Parsing the serialized empty map panicked.
C14_EmptyMapPanics ==
    /\ pc = "panic"
    /\ codec_in.codec = "hstore"
    /\ codec_in.kv = EmptyMap
    /\ ~codec_out.ok

\* ---------------------------------------------------------------------------
\* Environment variables and connection uris (config.rs).  A text is a
\* sequence of tokens: the characters $, :, @, / and the separator ://
\* stand for themselves, every other token for a run of other characters.
\* ---------------------------------------------------------------------------

\* Ok(String) of substitute_env_var.
OkText(text) == [NoResult EXCEPT !.kind = "String", !.text = text]

\* Err(Error::new(ErrorKind::Other, ..)): the message kind and the text it
\* quotes.
Failure(message, text) ==
    [NoResult EXCEPT !.ok = FALSE, !.kind = message, !.text = text]

\* std::env::var(key): Ok for a variable that is set to valid Unicode, Err
\* for one that is not set (NotPresent) or whose value is not valid Unicode
\* (NotUnicode).
env_var(env, key) ==
    IF key \in DOMAIN env /\ env[key].unicode
    THEN [ok |-> TRUE, value |-> env[key].text]
    ELSE [ok |-> FALSE, value |-> <<>>]

\* substitute_env_var without the test of the length.
substitute_env_var_any_length(text, env) ==
    IF text = <<>> THEN OkText(<<>>)
    ELSE IF Head(text) = "$"
    THEN LET key == Tail(text)
             value == env_var(env, key)
         IN IF value.ok THEN OkText(value.value)
            ELSE Failure("environment variable is missing", key)
    ELSE OkText(text)

\* substitute_env_var
substitute_env_var(text, env) ==
    IF text = <<>> THEN OkText(<<>>)
    ELSE IF Head(text) = "$" /\ Len(text) > 1
    THEN LET key == Tail(text)
             value == env_var(env, key)
         IN IF value.ok THEN OkText(value.value)
            ELSE Failure("environment variable is missing", key)
    ELSE OkText(text)

\* The position of the first token tok of s, 0 when there is none.
IndexOf(s, tok) ==
    IF \A i \in 1..Len(s) : s[i] # tok THEN 0
    ELSE CHOOSE i \in 1..Len(s) : s[i] = tok /\ \A j \in 1..(i - 1) : s[j] # tok

Before(s, tok) ==
    IF IndexOf(s, tok) = 0 THEN s ELSE SubSeq(s, 1, IndexOf(s, tok) - 1)
After(s, tok) ==
    IF IndexOf(s, tok) = 0 THEN <<>> ELSE SubSeq(s, IndexOf(s, tok) + 1, Len(s))

\* The port numbers the tokens of the model stand for.
PortTokens == {"0", "3307"}
PortValue(tok) == IF tok = "0" THEN 0 ELSE 3307

\* Url::parse of the url crate on a text scheme://[user[:password]@]host
\* [:port][/path]: the components of the url, or not ok when the text has no
\* scheme, the port is not a number, or credentials come with an empty host.
\* An empty password is no password, an empty host no host.
UrlParse(text) ==
    IF Len(text) < 2 \/ text[2] # "://" \/ text[1] \in {"$", ":", "@", "/", "://"}
    THEN [ok |-> FALSE]
    ELSE LET rest == SubSeq(text, 3, Len(text))
             authority == Before(rest, "/")
             url_path == IF IndexOf(rest, "/") = 0 THEN <<>>
                         ELSE SubSeq(rest, IndexOf(rest, "/"), Len(rest))
             credentials == IndexOf(authority, "@") # 0
             userinfo == IF credentials THEN Before(authority, "@") ELSE <<>>
             hostport == IF credentials THEN After(authority, "@")
                         ELSE authority
             host == Before(hostport, ":")
             port_text == After(hostport, ":")
         IN IF \/ Len(port_text) > 1
               \/ (Len(port_text) = 1 /\ port_text[1] \notin PortTokens)
               \/ Len(host) > 1
               \/ (credentials /\ host = <<>>)
            THEN [ok |-> FALSE]
            ELSE [ok |-> TRUE,
                  scheme |-> text[1],
                  username |-> Before(userinfo, ":"),
                  password |-> IF After(userinfo, ":") = <<>> THEN None
                               ELSE Some(After(userinfo, ":")),
                  host |-> IF host = <<>> THEN None ELSE Some(host),
                  port |-> IF port_text = <<>> THEN [some |-> FALSE, val |-> 0]
                           ELSE [some |-> TRUE, val |-> PortValue(port_text[1])],
                  path |-> url_path]

PostgresDefaultPort == 5432
MysqlDefaultPort == 3306

get_host(url) ==
    IF url.host.some THEN OkText(url.host.val)
    ELSE Failure("missing <host> property from connection uri", <<>>)

get_port(url, default_port) ==
    IF url.port.some /\ url.port.val < 1
    THEN Failure("<port> from connection uri can't be lower than 0", <<>>)
    ELSE IF url.port.some THEN [NoResult EXCEPT !.port = url.port.val]
    ELSE [NoResult EXCEPT !.port = default_port]

get_username(url) ==
    IF url.username # <<>> THEN OkText(url.username)
    ELSE Failure("missing <username> property from connection uri", <<>>)

get_password(url) ==
    IF url.password.some THEN OkText(url.password.val) ELSE OkText(<<>>)

\* get_database: the path is split on "/" and the second piece is the
\* database; the default stands in only when there is no second piece.  (A
\* split is never empty, so the first test of the code never fires.)
get_database(url, default) ==
    LET database == Split(url.path, "/")
    IN IF Len(database) < 2
       THEN IF default.some THEN OkText(default.val)
            ELSE Failure("missing <database> property from connection uri",
                         <<>>)
       ELSE OkText(database[2])

\* The tuple of a ConnectionUri, built field by field with ?: the first
\* failure is returned.
connection(kind, host, port, username, password, database) ==
    IF ~host.ok THEN host
    ELSE IF ~port.ok THEN port
    ELSE IF ~username.ok THEN username
    ELSE IF ~password.ok THEN password
    ELSE IF ~database.ok THEN database
    ELSE [ok |-> TRUE, kind |-> kind, text |-> <<>>, host |-> host.text,
          port |-> port.port, username |-> username.text,
          password |-> password.text, database |-> database.text]

\* parse_connection_uri
parse_connection_uri(text, env) ==
    LET uri == substitute_env_var(text, env)
        url == UrlParse(uri.text)
    IN IF ~uri.ok THEN uri
       ELSE IF ~url.ok THEN Failure("url::ParseError", <<>>)
       ELSE IF url.scheme \in {"postgres", "postgresql"}
       THEN connection("Postgres", get_host(url),
                       get_port(url, PostgresDefaultPort), get_username(url),
                       get_password(url),
                       get_database(url, Some(<<"public">>)))
       ELSE IF url.scheme = "mysql"
       THEN connection("Mysql", get_host(url),
                       get_port(url, MysqlDefaultPort), get_username(url),
                       get_password(url), get_database(url, None))
       ELSE Failure("not supported", <<url.scheme>>)

\* The texts handed to substitute_env_var and the environments of the model.
MaxTextLen == 2

EnvTokens == {"$", "K", "J"}
EnvTexts == SeqsUpTo(EnvTokens, MaxTextLen)
EnvKeys == {<<"K">>, <<"J">>}
EnvValues ==
    [unicode : {TRUE}, text : {<<>>, <<"v">>, <<"$", "J">>}]
    \cup {[unicode |-> FALSE, text |-> <<>>]}
Environments == UNION {[keys -> EnvValues] : keys \in SUBSET EnvKeys}

\* The connection uris of the model.
Schemes == {"postgres", "postgresql", "mysql", "http"}
UserInfos ==
    {<<>>, <<"root", "@">>, <<"root", ":", "@">>, <<"root", ":", "pw", "@">>,
     <<":", "pw", "@">>}
HostPorts ==
    {<<>>, <<"localhost">>, <<"localhost", ":", "3307">>,
     <<"localhost", ":", "0">>, <<"localhost", ":", "pw">>}
Paths == {<<>>, <<"/">>, <<"/", "db">>, <<"/", "db", "/", "x">>}
Uris ==
    {<<scheme, "://">> \o userinfo \o hostport \o url_path :
         scheme \in Schemes, userinfo \in UserInfos, hostport \in HostPorts,
         url_path \in Paths}
    \cup {<<"localhost">>}

\* The environments a uri is parsed in: the uri is given as it is, or as $K
\* with K set to it, or as $K with K not set.
UriInputs ==
    {[kind |-> "uri", text |-> uri, environ_before |-> EmptyMap] :
         uri \in Uris}
    \cup {[kind |-> "uri", text |-> <<"$", "K">>,
           environ_before |->
               [key \in {<<"K">>} |-> [unicode |-> TRUE, text |-> uri]]] :
              uri \in Uris}
    \cup {[kind |-> "uri", text |-> <<"$", "K">>, environ_before |-> EmptyMap]}

InitConf ==
    /\ pc = "config"
    /\ OptionsIdle
    /\ PlanIdle
    /\ CsvIdle
    /\ MobileIdle
    /\ table_idx = 0
    /\ table_columns = <<>>
    /\ csv_rows = <<>>
    /\ log = <<>>
    /\ last = NoCallback
    /\ child = NoChild
    /\ LateIdle
    /\ KvIdle
    /\ conf \in UriInputs
           \cup {[kind |-> "substitute", text |-> text, environ_before |-> env] :
                     text \in EnvTexts, env \in Environments}
    /\ environ = conf.environ_before
    /\ conf_out = NoResult
    /\ InitIdle
    /\ BindIdle

\* substitute_env_var
SubstituteEnvVar ==
    /\ pc = "config"
    /\ conf.kind = "substitute"
    /\ conf_out' = substitute_env_var(conf.text, environ)
    /\ pc' = "returned"
    /\ UNCHANGED <<optionVars, planVars, csvVars, mobileVars, dumpVars, kvVars,
                   environ, conf, initVars, bindVars,
                   lateVars>>

\* parse_connection_uri
ParseConnectionUri ==
    /\ pc = "config"
    /\ conf.kind = "uri"
    /\ conf_out' = parse_connection_uri(conf.text, environ)
    /\ pc' = "returned"
    /\ UNCHANGED <<optionVars, planVars, csvVars, mobileVars, dumpVars, kvVars,
                   environ, conf, initVars, bindVars,
                   lateVars>>

NextConf == SubstituteEnvVar \/ ParseConnectionUri

SpecConf == InitConf /\ [][NextConf]_vars

\* substitute_env_var has returned.
Substituted == pc = "returned" /\ conf.kind = "substitute"

\* The text is a reference $K to an environment variable.
IsReference(text) == Len(text) > 1 /\ Head(text) = "$"

GivenUri == substitute_env_var(conf.text, conf.environ_before)
GivenUrl == UrlParse(GivenUri.text)
UrlParsed ==
    /\ pc = "returned"
    /\ conf.kind = "uri"
    /\ GivenUri.ok
    /\ GivenUrl.ok

\* The url names no database: it has no path, or the first segment of the
\* path is empty.
DatabaseAbsent(url) ==
    \/ url.path = <<>>
    \/ Len(url.path) = 1
    \/ (Len(url.path) > 1 /\ url.path[2] = "/")

\* C16: for a uri of scheme postgres, postgresql or mysql an absent user is
\* an error, an absent password gives the empty string, an absent port gives
\* 5432 or 3306, an absent database is an error for mysql and gives "public"
\* for postgres; any other scheme is an error.
C16_ConnectionUri ==
    UrlParsed =>
        LET url == GivenUrl
        IN IF url.scheme \notin {"postgres", "postgresql", "mysql"}
           THEN ~conf_out.ok
           ELSE /\ url.username = <<>> => ~conf_out.ok
                /\ (conf_out.ok /\ ~url.password.some)
                       => conf_out.password = <<>>
                /\ (conf_out.ok /\ ~url.port.some)
                       => conf_out.port = IF url.scheme = "mysql"
                                          THEN MysqlDefaultPort
                                          ELSE PostgresDefaultPort
                /\ (url.scheme = "mysql" /\ DatabaseAbsent(url))
                       => ~conf_out.ok
                /\ (conf_out.ok /\ url.scheme # "mysql" /\ DatabaseAbsent(url))
                       => conf_out.database = <<"public">>

\* A uri that ends in / was accepted with the empty text as its database.
C16_EmptyDatabaseAccepted ==
    /\ UrlParsed
    /\ GivenUrl.path = <<"/">>
    /\ conf_out.ok
    /\ conf_out.database = <<>>

\* ---------------------------------------------------------------------------
\* The transformers of one batch of rows (read_table_data, postgres.rs).
\* ---------------------------------------------------------------------------

\* The match on get_applicable_transformers in read_table_data: the rows go
\* through transform_csv when the table has a transformer and are passed on
\* as they are when it has none.
transformed_rows(opts, table, cols, rows) ==
    LET applicable == get_applicable_transformers(table, opts)
    IN IF applicable.some THEN transform_csv(rows, cols, applicable.val)
       ELSE [ok |-> TRUE, csv |-> rows]

MaxTransformers == 2

BatchTables ==
    {[database |-> "public", table |-> "orders"],
     [database |-> "public", table |-> "users"],
     [database |-> "other", table |-> "orders"]}

\* The flattened transformer list of the options: any kinds, tables and
\* columns (the third is no column of the table), repetitions included.
BatchTransformers ==
    {Transformer(kind, t.database, t.table, ColumnName(o)) :
         kind \in {"blank", "mobile-number"}, t \in BatchTables, o \in 1..3}

BatchColumns ==
    <<DbColumnConfig(ColumnName(1), "varchar", 1),
      DbColumnConfig(ColumnName(2), "integer", 2)>>

BatchRows == {<<"x", TAB, "7">>, <<"x", TAB, "7", NL, "y", TAB, "8">>}

InitBatch ==
    /\ pc = "batch"
    /\ OptionsIdle
    /\ PlanIdle
    /\ CsvIdle
    /\ MobileIdle
    /\ table_idx = 0
    /\ table_columns = <<>>
    /\ csv_rows = <<>>
    /\ log = <<>>
    /\ last = NoCallback
    /\ child = NoChild
    /\ LateIdle
    /\ KvIdle
    /\ ConfIdle
    /\ path = {}
    /\ init_out = NotCalled
    /\ bind \in [transformers : SeqsUpTo(BatchTransformers, MaxTransformers),
                  table : {[database |-> "public", table |-> "orders"]},
                  columns : {BatchColumns}, csv : BatchRows]
    /\ bind_out = NotProcessed

\* One batch of rows in read_table_data.
TransformBatch ==
    /\ pc = "batch"
    /\ bind_out' = transformed_rows(
                       [NoOptions EXCEPT !.transformers = bind.transformers],
                       bind.table, bind.columns, bind.csv)
    /\ pc' = IF bind_out'.ok THEN "transformed" ELSE "panic"
    /\ UNCHANGED <<optionVars, planVars, csvVars, mobileVars, dumpVars, kvVars,
                   confVars, initVars, bind,
                   lateVars>>

NextBatch == TransformBatch

SpecBatch == InitBatch /\ [][NextBatch]_vars

\* The positions of the list whose transformer names the table of the batch
\* and the column.
TransformersOf(column_name) ==
    {k \in 1..Len(bind.transformers) :
        /\ bind.transformers[k].database_name = bind.table.database
        /\ bind.transformers[k].table_name = bind.table.table
        /\ bind.transformers[k].column_name = column_name}

Latest(positions) == CHOOSE k \in positions : \A l \in positions : l <= k

\* The field of a column in the output: the value of the field given to
\* the latest transformer of the column, once, or the value as it is.
ExpectedField(column_config, record) ==
    LET value == to_map_column(column_config, record).val
        positions == TransformersOf(column_config.column)
    IN IF positions = {} THEN ColumnText(value)
       ELSE ColumnText(transformer_transform(
                           bind.transformers[Latest(positions)], value))

ExpectedRows ==
    LET records == reader_records(bind.csv)
    IN Concat([r \in 1..Len(records) |->
                   Join([i \in 1..Len(bind.columns) |->
                            ExpectedField(bind.columns[i], records[r])], TAB)
                   \o <<NL>>])

\* C17: every column of every row is transformed by at most one transformer,
\* the latest of the list that names the table and the column; a transformer
\* of another database or table is not applied.
C17_LatestTransformerOnly ==
    pc = "transformed" =>
        IF \A i \in 1..Len(bind.columns) :
               TransformersOf(bind.columns[i].column) = {}
        THEN bind_out.csv = bind.csv
        ELSE bind_out.csv = ExpectedRows

\* Two transformers of different kinds name the same column of the table and
\* the batch was transformed.
C17_Witness ==
    /\ pc = "transformed"
    /\ \E i \in 1..Len(bind.columns) :
           LET positions == TransformersOf(bind.columns[i].column)
           IN \E k, l \in positions :
                  k < l /\ bind.transformers[k].id # bind.transformers[l].id
    /\ bind_out.csv # bind.csv

\* ---------------------------------------------------------------------------
\* Connector::init of the Postgres source (postgres.rs).
\* ---------------------------------------------------------------------------

\* utils::binary_exists: Ok when the binary is found on PATH, otherwise an
\* error that names it.
binary_exists(binary, found) ==
    IF binary \in found THEN [ok |-> TRUE, kind |-> "Ok"]
    ELSE [ok |-> FALSE, kind |-> binary]

pg_dump_exists(found) == binary_exists("pg_dump", found)

psql_exists(found) == binary_exists("psql", found)

\* Result::and_then
and_then(first, second) == IF first.ok THEN second ELSE first

\* Connector::init: pg_dump_exists().and_then(|_n| pg_dump_exists())
init(found) == and_then(pg_dump_exists(found), pg_dump_exists(found))

Binaries ==
    {"pg_dump", "psql", "pg_restore", "mysqldump", "mongodump", "docker", "sh"}

InitConnector ==
    /\ pc = "init"
    /\ OptionsIdle
    /\ PlanIdle
    /\ CsvIdle
    /\ MobileIdle
    /\ table_idx = 0
    /\ table_columns = <<>>
    /\ csv_rows = <<>>
    /\ log = <<>>
    /\ last = NoCallback
    /\ child = NoChild
    /\ LateIdle
    /\ KvIdle
    /\ ConfIdle
    /\ path \in SUBSET Binaries
    /\ init_out = NotCalled
    /\ BindIdle

\* Connector::init
ConnectorInit ==
    /\ pc = "init"
    /\ init_out' = init(path)
    /\ pc' = IF init_out'.ok THEN "initialized" ELSE "Err"
    /\ UNCHANGED <<optionVars, planVars, csvVars, mobileVars, dumpVars, kvVars,
                   confVars, path, bindVars,
                   lateVars>>

NextConnector == ConnectorInit

SpecConnector == InitConnector /\ [][NextConnector]_vars

\* C18: init fails when pg_dump or psql is absent from PATH and succeeds
\* only when both are present.
C18_InitRequiresBothBinaries ==
    pc # "init" => (init_out.ok <=> {"pg_dump", "psql"} \subseteq path)

\* init returned Ok although psql is not on PATH.
C18_InitOkWithoutPsql ==
    /\ pc = "initialized"
    /\ init_out.ok
    /\ "psql" \notin path

----------------------------------------------------------------------------
(* The messages of a dump (commands/dump.rs, source/postgres_schema.rs).   *)
(* Two runs of dump are made side by side on configurations that differ    *)
(* in the password of the connection uri only; the database answers both   *)
(* in the same way.                                                        *)

\* ConnectionUri::Postgres: the first field, the text of the parsed url.
postgres_connection_uri(text, env) == substitute_env_var(text, env).text

\* The text of an io::Error made by parse_connection_uri.
error_message(result) == <<result.kind>> \o result.text

\* The error of run for a source that is not Postgres: the Debug text of the
\* ConnectionUri, all its fields included.
not_recognized(v) ==
    <<"source type '", v.kind, "(">> \o v.host \o <<", ">> \o NatToText(v.port)
    \o <<", ">> \o v.username \o <<", ">> \o v.password \o <<", ">>
    \o v.database \o <<")' not recognized">>

\* run, up to task.run: the messages it shows for a connection uri.
run_messages(text, env) ==
    LET v == parse_connection_uri(text, env)
    IN IF ~v.ok THEN <<error_message(v)>>
       ELSE IF v.kind = "Postgres" THEN <<>>
       ELSE <<not_recognized(v)>>

\* The Err arm of Client::connect in database_tables and database_columns:
\* two lines, the first with the connection uri.
connect_messages(connection_uri, connected) ==
    IF connected THEN <<>>
    ELSE << <<"Failed to connect to ">> \o connection_uri,
            <<"Connection failed on ", "Error">> >>

MaxTables == 2

Passwords == {"hunter2", "s3cret"}

\* The connection uris of the two runs: the same but for the password.
RunPairs ==
    { [a |-> <<scheme, "://", "root", ":", pa, "@">> \o hostport \o url_path,
       b |-> <<scheme, "://", "root", ":", pb, "@">> \o hostport \o url_path] :
        scheme \in {"postgres", "mysql", "http"},
        pa \in Passwords, pb \in Passwords,
        hostport \in {<<>>, <<"localhost">>, <<"localhost", ":", "3307">>},
        url_path \in {<<>>, <<"/", "db">>} }
    \ {r \in [a : Uris \cup {<<>>}, b : Uris \cup {<<>>}] : r.a = r.b}

InitMessages ==
    /\ pc = "run"
    /\ OptionsIdle
    /\ PlanIdle
    /\ CsvIdle
    /\ MobileIdle
    /\ table_idx = 0
    /\ table_columns = <<>>
    /\ csv_rows = <<>>
    /\ log = <<>>
    /\ last = NoCallback
    /\ child = NoChild
    /\ KvIdle
    /\ ConfIdle
    /\ InitIdle
    /\ BindIdle
    /\ uris \in RunPairs
    /\ messages = NoRuns
    /\ RestoreIdle
    /\ PipeIdle

\* commands::dump::run, up to the start of the dump task.
Run ==
    /\ pc = "run"
    /\ messages' = [x \in {"a", "b"} |-> run_messages(uris[x], EmptyMap)]
    /\ pc' = IF messages'.a = <<>> THEN "database_tables" ELSE "Err"
    /\ UNCHANGED <<optionVars, planVars, csvVars, mobileVars, dumpVars,
                   kvVars, confVars, initVars, bindVars, uris, restoreVars,
                   pipeVars>>

\* QueryStruct::database_tables, called by dump_database_data.
DatabaseTables ==
    /\ pc = "database_tables"
    /\ \E connected \in BOOLEAN :
          messages' =
              [x \in {"a", "b"} |->
                  messages[x]
                  \o connect_messages(
                         postgres_connection_uri(uris[x], EmptyMap), connected)]
    /\ table_idx' = 1
    /\ pc' \in {"database_columns", "Ok"}
    /\ UNCHANGED <<optionVars, planVars, csvVars, mobileVars, table_columns,
                   csv_rows, log, last, child, kvVars, confVars, initVars,
                   bindVars, uris, restoreVars,
                   pipeVars>>

\* QueryStruct::database_columns, called by dump_table_data for the next
\* entry of the plan.
DatabaseColumns ==
    /\ pc = "database_columns"
    /\ \E connected \in BOOLEAN :
          messages' =
              [x \in {"a", "b"} |->
                  messages[x]
                  \o connect_messages(
                         postgres_connection_uri(uris[x], EmptyMap), connected)]
    /\ \/ table_idx < MaxTables /\ table_idx' = table_idx + 1 /\ pc' = pc
       \/ table_idx' = table_idx /\ pc' \in {"Ok", "Err"}
    /\ UNCHANGED <<optionVars, planVars, csvVars, mobileVars, table_columns,
                   csv_rows, log, last, child, kvVars, confVars, initVars,
                   bindVars, uris, restoreVars,
                   pipeVars>>

NextMessages ==
    \/ Run
    \/ DatabaseTables
    \/ DatabaseColumns

SpecMessages == InitMessages /\ [][NextMessages]_vars

\* The password of the connection uri of a run.
PasswordOf(x) == uris[x][5]

\* C22: no message shown while a dump is made holds the password of the
\* connection uri, and two configurations that differ in the password alone
\* show the same messages.
C22_NoPasswordInMessages ==
    /\ \A x \in {"a", "b"} :
          \A i \in 1..Len(messages[x]) :
              ~Contains(messages[x][i], PasswordOf(x))
    /\ messages.a = messages.b

\* C22: the connection to the database failed in database_tables and the
\* line that reports it holds the password of the run.
C22_PasswordShown ==
    /\ pc = "database_columns"
    /\ Len(messages.a) = 2
    /\ messages.a[1] =
          <<"Failed to connect to ", "postgres", "://", "root", ":", "hunter2",
            "@", "localhost", "/", "db">>
    /\ messages.b # messages.a

----------------------------------------------------------------------------
(* restore_local (commands/dump.rs): a dump restored to standard output or *)
(* into a local container.                                                 *)

\* The images restore_local starts a container for.
ContainerImages == {"postgres", "postgresql", "mysql"}

\* restore_local after the early steps: where the arguments lead.
restore_branch(args) ==
    IF args.output THEN "task_output"
    ELSE IF ~args.image.some THEN "exit"
    ELSE IF args.image.val \in ContainerImages THEN "task"
    ELSE "Ok"

\* The match on the container with stop called before rm under --remove.
teardown_stop_then_rm(args, container) ==
    IF ~container THEN <<>>
    ELSE IF args.remove THEN <<"stop", "rm">>
    ELSE <<"stop">>

\* The match on the container after the wait: rm under --remove, stop
\* otherwise, and neither when there is no container.
teardown(args, container) ==
    IF ~container THEN <<>>
    ELSE IF args.remove THEN <<"rm">>
    ELSE <<"stop">>

RestoreArgs ==
    [value : {"latest", "dump-1"}, output : BOOLEAN,
     image : OptionOf(ContainerImages \cup {"mongodb"}), remove : BOOLEAN]

InitRestore ==
    /\ pc = "restore_local"
    /\ OptionsIdle
    /\ PlanIdle
    /\ CsvIdle
    /\ MobileIdle
    /\ table_idx = 0
    /\ table_columns = <<>>
    /\ csv_rows = <<>>
    /\ log = <<>>
    /\ last = NoCallback
    /\ child = NoChild
    /\ KvIdle
    /\ ConfIdle
    /\ InitIdle
    /\ BindIdle
    /\ MsgIdle
    /\ restore_args \in RestoreArgs
    /\ restore = NoRestore
    /\ PipeIdle

\* restore_local, up to the restore task: --output, a missing --image (the
\* command exits with the usage error) or the image.
RestoreLocal ==
    /\ pc = "restore_local"
    /\ pc' = restore_branch(restore_args)
    /\ UNCHANGED <<optionVars, planVars, csvVars, mobileVars, dumpVars,
                   kvVars, confVars, initVars, bindVars, msgVars,
                   restoreVars, pipeVars>>

\* --output: the task writes the dump to standard output.
TaskOutput ==
    /\ pc = "task_output"
    /\ \E result \in {"Ok", "Err"} :
          /\ restore' = [restore EXCEPT !.task = result]
          /\ pc' = result
    /\ UNCHANGED <<optionVars, planVars, csvVars, mobileVars, dumpVars,
                   kvVars, confVars, initVars, bindVars, msgVars,
                   restore_args, pipeVars>>

\* --image: the task starts the container and replays the dump into it.
\* The task may fail before or after the container is there.
TaskRun ==
    /\ pc = "task"
    /\ \E result \in {"Ok", "Err"}, created \in BOOLEAN :
          /\ restore' = [restore EXCEPT
                             !.task = result,
                             !.container = created,
                             !.calls = IF created THEN <<"run">> ELSE <<>>]
          /\ pc' = IF result = "Ok" THEN "wait_until_ctrlc" ELSE "Err"
    /\ UNCHANGED <<optionVars, planVars, csvVars, mobileVars, dumpVars,
                   kvVars, confVars, initVars, bindVars, msgVars,
                   restore_args, pipeVars>>

\* An interrupt while the task runs: no handler is set yet and the process
\* ends.
InterruptTask ==
    /\ pc = "task"
    /\ \E created \in BOOLEAN :
          restore' = [restore EXCEPT
                         !.interrupted = TRUE,
                         !.container = created,
                         !.calls = IF created THEN <<"run">> ELSE <<>>]
    /\ pc' = "killed"
    /\ UNCHANGED <<optionVars, planVars, csvVars, mobileVars, dumpVars,
                   kvVars, confVars, initVars, bindVars, msgVars,
                   restore_args, pipeVars>>

\* wait_until_ctrlc: the handler is set and recv returns when the interrupt
\* arrives.
WaitUntilCtrlc ==
    /\ pc = "wait_until_ctrlc"
    /\ restore' = [restore EXCEPT !.interrupted = TRUE]
    /\ pc' = "teardown"
    /\ UNCHANGED <<optionVars, planVars, csvVars, mobileVars, dumpVars,
                   kvVars, confVars, initVars, bindVars, msgVars,
                   restore_args, pipeVars>>

\* The match on the container: rm or stop is called and its result returned;
\* without a container the error "unable to retrieve container ID".
Teardown ==
    /\ pc = "teardown"
    /\ restore' = [restore EXCEPT
                      !.calls = @ \o teardown(restore_args, restore.container)]
    /\ pc' \in IF restore.container THEN {"Ok", "Err"} ELSE {"Err"}
    /\ UNCHANGED <<optionVars, planVars, csvVars, mobileVars, dumpVars,
                   kvVars, confVars, initVars, bindVars, msgVars,
                   restore_args, pipeVars>>

NextRestore ==
    \/ RestoreLocal
    \/ TaskOutput
    \/ TaskRun
    \/ InterruptTask
    \/ WaitUntilCtrlc
    \/ Teardown

SpecRestore == InitRestore /\ [][NextRestore]_vars

\* The calls of stop and rm made so far.
TeardownCalls == SelectSeq(restore.calls, LAMBDA c : c \in {"stop", "rm"})

----------------------------------------------------------------------------
(* The child processes of Source::read and their pipes (source/postgres.rs: *)
(* dump_database_schema, dump_table_data).  Both stdout and stderr of a    *)
(* child are pipes; the driver reads stdout to its end and then waits.     *)

\* The chunks a pipe holds before a write to it blocks.
PipeCapacity == 1
\* The writes a child makes before it exits.
MaxWrites == 3
\* The entries of the plan.
MaxEntries == 2

\* Command::new: pg_dump in the schema phase (entry 0), psql for an entry of
\* the plan.
command_of(entry) == IF entry = 0 THEN "pg_dump" ELSE "psql"

\* What the driver does with an Err of the reader of stdout: read_schema
\* unwraps it, read_table_data drops it (let _ =) and goes on to
\* wait_for_command.
on_read_error(entry) == IF entry = 0 THEN "panic" ELSE "wait_for_command"

\* wait_for_command returned: its error is returned by read; otherwise the
\* next entry of the plan is exported, and read returns Ok after the last.
after_wait_for_command(success, entry, entries) ==
    IF ~success THEN "Err"
    ELSE IF entry < entries THEN "spawn"
    ELSE "Ok"

\* The writes of a child, in the order it makes them.
Writes == SeqsUpTo({"stdout", "stderr"}, MaxWrites)

InitPipes ==
    /\ pc = "spawn"
    /\ OptionsIdle
    /\ PlanIdle
    /\ CsvIdle
    /\ MobileIdle
    /\ table_idx = 0
    /\ table_columns = <<>>
    /\ csv_rows = <<>>
    /\ log = <<>>
    /\ last = NoCallback
    /\ child = NoChild
    /\ KvIdle
    /\ ConfIdle
    /\ InitIdle
    /\ BindIdle
    /\ MsgIdle
    /\ RestoreIdle
    /\ proc = NoProc
    /\ stage \in [entry : {0}, entries : 0..MaxEntries, unwaited : {0},
                  read_failed : {FALSE}, bound : {FALSE}]

\* Command::spawn()?: the child starts with both pipes empty, or the spawn
\* fails and the stage returns the error.
SpawnChild ==
    /\ pc = "spawn"
    /\ \E spawned \in BOOLEAN, todo \in Writes, bound \in BOOLEAN :
          IF spawned
          THEN /\ proc' = [command |-> command_of(stage.entry),
                           state |-> "running", todo |-> todo, stdout |-> 0,
                           stderr |-> 0, reader |-> TRUE, success |-> TRUE]
               /\ stage' = [stage EXCEPT !.unwaited = @ + 1,
                                         !.bound = bound /\ stage.entry > 0]
               /\ pc' = "read"
          ELSE /\ pc' = "Err"
               /\ UNCHANGED <<proc, stage>>
    /\ UNCHANGED <<optionVars, planVars, csvVars, mobileVars, dumpVars,
                   kvVars, confVars, initVars, bindVars, msgVars,
                   restoreVars>>

\* The child makes its next write.  A write to a full pipe blocks; a write
\* to stdout after the driver has dropped the reader fails and ends the
\* child.
ChildWrite ==
    /\ proc.state = "running"
    /\ proc.todo # <<>>
    /\ IF Head(proc.todo) = "stdout"
       THEN IF ~proc.reader
            THEN proc' = [proc EXCEPT !.state = "exited", !.success = FALSE,
                                      !.todo = <<>>]
            ELSE /\ proc.stdout < PipeCapacity
                 /\ proc' = [proc EXCEPT !.stdout = @ + 1,
                                         !.todo = Tail(@)]
       ELSE /\ proc.stderr < PipeCapacity
            /\ proc' = [proc EXCEPT !.stderr = @ + 1, !.todo = Tail(@)]
    /\ UNCHANGED <<pc, optionVars, planVars, csvVars, mobileVars, dumpVars,
                   kvVars, confVars, initVars, bindVars, msgVars,
                   restoreVars, stage>>

\* The child has written everything and exits; its ends of the pipes close.
ChildExit ==
    /\ proc.state = "running"
    /\ proc.todo = <<>>
    /\ \E success \in BOOLEAN :
          proc' = [proc EXCEPT !.state = "exited", !.success = success]
    /\ UNCHANGED <<pc, optionVars, planVars, csvVars, mobileVars, dumpVars,
                   kvVars, confVars, initVars, bindVars, msgVars,
                   restoreVars, stage>>

\* read_schema / read_table_data: the reader takes a chunk of stdout and the
\* closure runs on it; in the data phase transform_csv may panic when a
\* transformer is bound to the table.
ReadChunk ==
    /\ pc = "read"
    /\ proc.stdout > 0
    /\ \E panics \in {FALSE, stage.bound} :
          /\ pc' = IF panics THEN "panic" ELSE "read"
          /\ proc' = [proc EXCEPT !.stdout = @ - 1,
                                  !.reader = ~panics]
    /\ UNCHANGED <<optionVars, planVars, csvVars, mobileVars, dumpVars,
                   kvVars, confVars, initVars, bindVars, msgVars,
                   restoreVars, stage>>

\* A read of stdout fails: the reader returns the error and is dropped.
ReadError ==
    /\ pc = "read"
    /\ proc' = [proc EXCEPT !.reader = FALSE]
    /\ stage' = [stage EXCEPT !.read_failed = TRUE]
    /\ pc' = on_read_error(stage.entry)
    /\ UNCHANGED <<optionVars, planVars, csvVars, mobileVars, dumpVars,
                   kvVars, confVars, initVars, bindVars, msgVars,
                   restoreVars>>

\* The end of stdout: the pipe is empty and the child has closed its end.
ReadEof ==
    /\ pc = "read"
    /\ proc.stdout = 0
    /\ proc.state = "exited"
    /\ proc' = [proc EXCEPT !.reader = FALSE]
    /\ pc' = "wait_for_command"
    /\ UNCHANGED <<optionVars, planVars, csvVars, mobileVars, dumpVars,
                   kvVars, confVars, initVars, bindVars, msgVars,
                   restoreVars, stage>>

\* wait_for_command: blocks until the child has exited, and returns its
\* status.
WaitForCommand ==
    /\ pc = "wait_for_command"
    /\ proc.state = "exited"
    /\ proc' = [proc EXCEPT !.state = "waited"]
    /\ pc' = after_wait_for_command(proc.success, stage.entry, stage.entries)
    /\ stage' = [stage EXCEPT
                    !.unwaited = @ - 1,
                    !.entry = IF pc' = "spawn" THEN @ + 1 ELSE @]
    /\ UNCHANGED <<optionVars, planVars, csvVars, mobileVars, dumpVars,
                   kvVars, confVars, initVars, bindVars, msgVars,
                   restoreVars>>

NextPipes ==
    \/ SpawnChild
    \/ ChildWrite
    \/ ChildExit
    \/ ReadChunk
    \/ ReadError
    \/ ReadEof
    \/ WaitForCommand

SpecPipes == InitPipes /\ [][NextPipes]_vars

\* The child keeps running while it can, and the driver takes every step
\* that stays possible; a read error is not bound to happen.
SpecPipesFair ==
    /\ SpecPipes
    /\ WF_vars(ChildWrite \/ ChildExit)
    /\ WF_vars(SpawnChild \/ ReadChunk \/ ReadEof \/ WaitForCommand)

\* Source::read has ended.
ReadEnded == pc \in {"Ok", "Err", "panic"}

\* C21: once a read of the stdout of a child has failed, in the schema phase
\* or in the data phase of a table, read does not return Ok.
C21_ReadFailureIsFatal == stage.read_failed => pc # "Ok"

\* C21: a read of the stdout of the psql of the first entry failed, psql
\* exited with status 0 and read returned Ok.
C21_OkAfterReadFailure ==
    /\ pc = "Ok"
    /\ stage.read_failed
    /\ stage.entry >= 1
    /\ proc.command = "psql"
    /\ proc.success

\* C24: at most one child is alive and not waited for at any time, the
\* driver starts no child while another is not waited for, and none is left
\* when read ends, however it ends.
C24_EveryChildWaitedFor ==
    /\ stage.unwaited <= 1
    /\ pc = "spawn" => stage.unwaited = 0
    /\ ReadEnded => stage.unwaited = 0

\* C24: read ended in a panic of the closure of read_table_data while psql
\* was running; psql was not waited for.
C24_ChildLeftBehind ==
    /\ pc = "panic"
    /\ proc.command = "psql"
    /\ proc.state = "running"
    /\ stage.unwaited = 1
    /\ ~stage.read_failed

\* C28: a stage that has spawned its child comes to the end of
\* wait_for_command (or of read), whatever finite amount the child writes to
\* stdout and stderr before it exits.
C28_StageReturns ==
    (pc \in {"read", "wait_for_command"})
        ~> (pc \in {"spawn", "Ok", "Err", "panic"})

\* C28: the child is blocked in a write to the full pipe of stderr, which
\* nobody reads, and the driver is blocked in a read of the empty stdout.
C28_DriverAndChildBlocked ==
    /\ pc = "read"
    /\ ~stage.read_failed
    /\ proc.state = "running"
    /\ proc.todo # <<>>
    /\ Head(proc.todo) = "stderr"
    /\ proc.stderr = PipeCapacity
    /\ proc.stdout = 0

====
